---- MODULE Spec2Model ----
(***************************************************************************)
(* A model of the cli-debate orchestration core of nexus-cli:              *)
(*   - BaseCLIAgent.execute        (agents/base-agent.ts)                  *)
(*   - DebateOrchestrator          (orchestrator.ts, carried in the same   *)
(*                                  source file as base-agent.ts)          *)
(*   - CodeReviewOrchestrator      (code-review.ts)                        *)
(*                                                                         *)
(* JavaScript runs every handler to completion, so one action is one       *)
(* handler: the code from one await (or event) up to the next await.       *)
(* Text is a sequence of tokens; the Chinese message prefixes of the       *)
(* source are written as ASCII tokens.                                     *)
(***************************************************************************)
EXTENDS Integers, Sequences, FiniteSets, TLC

(***************************************************************************)
(* Bounds of the model.                                                    *)
(***************************************************************************)
\* largest configured round count (config.rounds)
MaxRounds == 2
\* how many times run() is called on one DebateOrchestrator instance
MaxRuns == 2
\* stdout chunks delivered to the execute() calls of one run()
MaxChunks == 1

(***************************************************************************)
(* types.ts: the enums.                                                    *)
(***************************************************************************)
MODERATOR == "moderator"
CHALLENGER == "challenger"
DEFENDER == "defender"
DebateRole == {MODERATOR, CHALLENGER, DEFENDER}

CLAUDE == "claude"
CODEX == "codex"
GEMINI == "gemini"
CLIType == {CLAUDE, CODEX, GEMINI}

OPENING == "opening"
ROUND == "round"
FINAL == "final"

PENDING == "pending"
IN_PROGRESS == "in_progress"
COMPLETED == "completed"
FAILED == "failed"
TIMEOUT == "timeout"
DebateStatus == {PENDING, IN_PROGRESS, COMPLETED, FAILED, TIMEOUT}

\* an optional field that is not set (JavaScript undefined)
Undefined == <<"undefined">>

(***************************************************************************)
(* BaseCLIAgent.execute: the result of each resolution path.               *)
(* output and errorOutput are token sequences; " " is a whitespace token.  *)
(***************************************************************************)
WS == " "

RECURSIVE TrimStart(_)
TrimStart(s) == IF s # <<>> /\ Head(s) = WS THEN TrimStart(Tail(s)) ELSE s

RECURSIVE TrimEnd(_)
TrimEnd(s) ==
  IF s # <<>> /\ s[Len(s)] = WS THEN TrimEnd(SubSeq(s, 1, Len(s) - 1)) ELSE s

\* String.prototype.trim
Trim(s) == TrimEnd(TrimStart(s))

\* the sentinel error of the timer path
TIMEOUT_ERROR == <<"ExecTimeout">>

\* `退出码: ${code}`
ExitCodeText(code) == <<"ExitCode:", ToString(code)>>

\* a faulty variant: the output streamed so far is dropped
TimeoutResult_NoOutput(output, duration) ==
  [success |-> FALSE, output |-> <<>>, error |-> TIMEOUT_ERROR, duration |-> duration]

\* timer callback: resolve({success: false, output, error: sentinel})
TimeoutResult(output, duration) ==
  [success |-> FALSE, output |-> output, error |-> TIMEOUT_ERROR, duration |-> duration]

\* a faulty variant: the stderr text is not used for the error
CloseResult_NoStderr(code, output, errorOutput, duration) ==
  [success |-> (code = 0),
   output |-> Trim(output),
   error |-> IF code # 0 THEN ExitCodeText(code) ELSE Undefined,
   duration |-> duration]

\* 'close' handler: resolve({success: code === 0, output: output.trim(),
\*                           error: code !== 0 ? errorOutput || exit text : undefined})
CloseResult(code, output, errorOutput, duration) ==
  [success |-> (code = 0),
   output |-> Trim(output),
   error |-> IF code # 0
               THEN (IF errorOutput # <<>> THEN errorOutput ELSE ExitCodeText(code))
               ELSE Undefined,
   duration |-> duration]

\* 'error' handler: resolve({success: false, output: '', error: err.message})
ErrorResult(message, duration) ==
  [success |-> FALSE, output |-> <<>>, error |-> message, duration |-> duration]


(***************************************************************************)
(* State.                                                                  *)
(***************************************************************************)
VARIABLES
  \* ---- DebateOrchestrator ----
  config,      \* DebateConfig: rounds, streaming, the cliType bound to each role
  pc,          \* where run() is suspended: idle (no run yet), check, opening,
               \* challenge, defend, evaluate, final, returned
  roundNo,     \* the loop variable i of run() / roundNumber of executeRound
  probes,      \* isAvailable() of each role's agent: "pending", "yes" or "no"
  messages,    \* this.messages, the transcript
  result,      \* the DebateResult object of the current run() call
  events,      \* the events emitted since the current run() call, in order
  calls,       \* the execute() calls of the current run() call, in order
  chunks,      \* stdout chunks delivered since the current run() call
  runs,        \* number of run() calls made on this instance
  nextId,      \* stands for uuidv4(): a fresh message id
  frame,       \* the locals challengerMessage and defenderMessage of executeRound
  base,        \* Len(messages) when the current run() was called
  \* ---- one BaseCLIAgent.execute() call ----
  xpc,         \* "idle" before the call, "called" once execute() has run to its return
  timeouts,    \* options.timeout and this.timeout (0: a falsy options.timeout)
  now,         \* Date.now()
  startTime,   \* the local startTime
  output,      \* the local output
  errorOutput, \* the local errorOutput
  resolved,    \* the local resolved flag
  timer,       \* the setTimeout timer: "none", "armed", "cleared" or "fired"
  proc,        \* the child process: "none", "running" or "closed" ('close' emitted)
  procErrors,  \* number of 'error' events the child process has emitted
  settled,     \* the values resolve() has been called with, in order
  terminators, \* the close / error / timer events so far, in order of occurrence
  delivered,   \* the chunks passed to options.onChunk, in order
  signals,     \* the signals sent with childProcess.kill, with the time of each
  \* ---- one call of a parser of code-review.ts, or of a constructor ----
  pin,         \* the arguments
  pout,        \* the value returned, once the call has been made
  \* ---- CodeReviewOrchestrator ----
  crConfig,    \* CodeReviewConfig: buildCommand set or not, autoFix, streaming, fixers
  crFixers,    \* the keys of this.fixers
  crInstalled, \* the roles whose agent's command exists on this machine
  crPc,        \* where run() is suspended: idle, build, analysis, defense, verdict,
               \* fix, returned
  crMessages,  \* this.messages
  crResult,    \* the CodeReviewResult object of the current run() call
  crEvents,    \* the events emitted since the current run() call, in order
  crCalls,     \* the execute() calls since the current run() call, in order
  crBuild,     \* the build processes spawned, oldest first, each "running",
               \* "errored" ('error' emitted) or "closed" ('close' emitted)
  crTasks,     \* the FixTask objects of executeParallelFix, in fixPromises order
  crChunks,    \* stdout chunks delivered since the current run() call
  crNextId,    \* stands for uuidv4()
  crRuns,      \* number of run() calls made on this instance
  crBase,      \* Len(crMessages) when the current run() was called
  \* ---- the event bus of an orchestrator: on() and emit() ----
  eventCallbacks, \* this.eventCallbacks: the listeners, in registration order
  published,      \* one entry per emit() call so far: how many listeners were
                  \* registered when it was called and whether it threw
  deliveries,     \* the listener calls made so far, in order: listener, event
  \* ---- one run() of an orchestrator that has listeners ----
  lpc,         \* where run() is: off, idle, analysis, defense, verdict, fix,
               \* resolved (run() returned its result), rejected
  lstatus,     \* result.status
  \* ---- concurrent execute() calls on one executor instance ----
  xcalls       \* per call: the locals of its closure, its process and its result

debateVars ==
  <<config, pc, roundNo, probes, messages, result, events, calls, chunks, runs, nextId,
    frame, base>>

execVars ==
  <<xpc, timeouts, now, startTime, output, errorOutput, resolved, timer, proc, procErrors,
    settled, terminators, delivered, signals>>

parseVars == <<pin, pout>>

reviewVars ==
  <<crInstalled, crConfig, crFixers, crPc, crMessages, crResult, crEvents, crCalls, crBuild, crTasks,
    crChunks, crNextId, crRuns, crBase>>

busVars == <<eventCallbacks, published, deliveries>>

listenVars == <<lpc, lstatus>>

pairVars == <<xcalls>>

nonDebateVars == <<execVars, parseVars, reviewVars, busVars, listenVars, pairVars>>
nonExecVars == <<debateVars, parseVars, reviewVars, busVars, listenVars, pairVars>>
nonParseVars == <<debateVars, execVars, reviewVars, busVars, listenVars, pairVars>>
nonReviewVars == <<debateVars, execVars, parseVars, busVars, listenVars, pairVars>>
nonBusVars == <<debateVars, execVars, parseVars, reviewVars, listenVars, pairVars>>
nonListenVars == <<debateVars, execVars, parseVars, reviewVars, pairVars>>
nonPairVars == <<debateVars, execVars, parseVars, reviewVars, busVars, listenVars>>

vars == <<debateVars, execVars, parseVars, reviewVars, busVars, listenVars, pairVars>>

BusIdle ==
  /\ eventCallbacks = <<>>
  /\ published = <<>>
  /\ deliveries = <<>>

ListenIdle == lpc = "off" /\ lstatus = PENDING

PairIdle == xcalls = <<>>

\* the values the variables of a component keep while another one is explored
ExecIdle ==
  /\ xpc = "idle"
  /\ timeouts = [option |-> 0, own |-> 0]
  /\ now = 0
  /\ startTime = 0
  /\ output = <<>>
  /\ errorOutput = <<>>
  /\ resolved = FALSE
  /\ timer = "none"
  /\ proc = "none"
  /\ procErrors = 0
  /\ settled = <<>>
  /\ terminators = <<>>
  /\ delivered = <<>>
  /\ signals = <<>>

(***************************************************************************)
(* The results an execute() call can resolve with, as the orchestrators    *)
(* see them: one per resolution path of BaseCLIAgent.execute.              *)
(***************************************************************************)
StdoutText == <<"a">>
StderrText == <<"e">>
LaunchMessage == <<"spawn failed">>
\* the orchestrators never read a result's duration: one value stands for all
Durations == {1}

ExecResults ==
  { CloseResult(code, StdoutText, err, d) :
      code \in {0, 1}, err \in {<<>>, StderrText}, d \in Durations }
    \cup { TimeoutResult(StdoutText, d) : d \in Durations }
    \cup { ErrorResult(LaunchMessage, d) : d \in Durations }

\* a call that has not resolved yet
Running == "running"
Resolved == "resolved"

(***************************************************************************)
(* prompts.ts: a prompt is determined by its template, the round number    *)
(* and the history it formats (the ids of the messages, in order).         *)
(***************************************************************************)
MessageIds(history) == [k \in 1..Len(history) |-> history[k].id]

getModeratorOpeningPrompt ==
  [template |-> "moderator-opening", roundNumber |-> 0, history |-> <<>>]

getChallengerPrompt(roundNumber, history) ==
  [template |-> "challenger", roundNumber |-> roundNumber, history |-> MessageIds(history)]

\* a faulty variant: the prompt is built from the transcript as it stood before
\* the challenger's message was appended
getDefenderPrompt_Stale(roundNumber, history) ==
  [template |-> "defender", roundNumber |-> roundNumber,
   history |-> MessageIds(SubSeq(history, 1, Len(history) - 1))]

getDefenderPrompt(roundNumber, history) ==
  [template |-> "defender", roundNumber |-> roundNumber, history |-> MessageIds(history)]

getModeratorEvaluationPrompt(roundNumber, history) ==
  [template |-> "moderator-evaluation", roundNumber |-> roundNumber,
   history |-> MessageIds(history)]

getModeratorFinalVerdictPrompt(history) ==
  [template |-> "moderator-final", roundNumber |-> 0, history |-> MessageIds(history)]

(***************************************************************************)
(* DebateOrchestrator helpers.                                             *)
(***************************************************************************)
\* a faulty variant: every Message is given the opening phase
createMessage_AlwaysOpening(id, role, cliType, content, phase, roundNumber) ==
  [id |-> id, role |-> role, cliType |-> cliType, content |-> content,
   phase |-> OPENING, roundNumber |-> roundNumber]

\* createMessage: the record pushed on this.messages
createMessage(id, role, cliType, content, phase, roundNumber) ==
  [id |-> id, role |-> role, cliType |-> cliType, content |-> content,
   phase |-> phase, roundNumber |-> roundNumber]

\* a new execute() call on the agent bound to `role`
Invoke(role, cliType, prompt) ==
  [role |-> role, cliType |-> cliType, prompt |-> prompt, state |-> Running,
   res |-> ErrorResult(<<>>, 0)]

\* the call in flight resolves with res
ResolveLast(cs, res) == [cs EXCEPT ![Len(cs)].state = Resolved, ![Len(cs)].res = res]

\* checkAgentsAvailable: the error list, in the order moderator, challenger, defender
RoleUnavailable(role, cliType) == <<"CLI unavailable:", role, cliType>>

\* a faulty variant: the defender's probe is not looked at
checkAgentsAvailable_NoDefender(p) ==
  (IF p[MODERATOR] = "no" THEN <<RoleUnavailable(MODERATOR, config.moderator)>> ELSE <<>>)
    \o (IF p[CHALLENGER] = "no" THEN <<RoleUnavailable(CHALLENGER, config.challenger)>> ELSE <<>>)

checkAgentsAvailable(p) ==
  (IF p[MODERATOR] = "no" THEN <<RoleUnavailable(MODERATOR, config.moderator)>> ELSE <<>>)
    \o (IF p[CHALLENGER] = "no" THEN <<RoleUnavailable(CHALLENGER, config.challenger)>> ELSE <<>>)
    \o (IF p[DEFENDER] = "no" THEN <<RoleUnavailable(DEFENDER, config.defender)>> ELSE <<>>)

\* `Agent 不可用: ${errors.join(', ')}`
UnavailableMessage(errors) == <<"Agent unavailable:", errors>>

\* a faulty variant: the thrown error does not carry the failure's error text
StepFailedMessage_NoText(step, error) == <<step>>

\* `主持人开场失败: ${result.error}` and its siblings
StepFailedMessage(step, error) == <<step, error>>

\* a faulty variant: a timeout is not treated as a failure
ExecFailed_IgnoresTimeout(res) == ~res.success /\ res.error # TIMEOUT_ERROR

\* the test `if (!result.success)` after each awaited execute()
ExecFailed(res) == ~res.success

\* the loop test `i <= this.config.rounds`
MoreRounds(i) == i <= config.rounds

\* the events executeRound(i) emits before its first await
RoundStartEvents(i) ==
  << [type |-> "round:start", roundNumber |-> i],
     [type |-> "message:start", role |-> CHALLENGER, cliType |-> config.challenger] >>

\* the events executeFinalVerdict emits before its await
FinalStartEvents ==
  << [type |-> "phase:start", phase |-> FINAL],
     [type |-> "message:start", role |-> MODERATOR, cliType |-> config.moderator] >>

\* a faulty variant: the catch block leaves the end time unset
Catch_NoEndTime(res, error, emitted) ==
  /\ result' = [res EXCEPT !.status = FAILED, !.error = error]
  /\ events' = emitted \o << [type |-> "error", error |-> error],
                            [type |-> "debate:end", status |-> FAILED] >>
  /\ pc' = "returned"

\* the catch block of run(): status, error and end time are set, then
\* 'error' and 'debate:end' are emitted and the result is returned
Catch(res, error, emitted) ==
  /\ result' = [res EXCEPT !.status = FAILED, !.error = error, !.endTime = TRUE]
  /\ events' = emitted \o << [type |-> "error", error |-> error],
                            [type |-> "debate:end", status |-> FAILED] >>
  /\ pc' = "returned"

(***************************************************************************)
(* DebateOrchestrator: initial state (after the constructor).              *)
(***************************************************************************)
\* the role -> backend bindings of the configurations explored
RoleBindings ==
  { [moderator |-> CLAUDE, challenger |-> CODEX, defender |-> GEMINI] }

\* the value of the roundNumber field of a message created outside a round
NoRound == 0

\* a message field that is not set (ids of real messages start at 1)
NoMessage ==
  [id |-> 0, role |-> "none", cliType |-> "none", content |-> <<>>,
   phase |-> "none", roundNumber |-> NoRound]

NoFrame == [challengerMessage |-> NoMessage, defenderMessage |-> NoMessage]

NoResult ==
  [status |-> PENDING, opening |-> NoMessage, rounds |-> <<>>,
   finalVerdict |-> NoMessage, error |-> Undefined, endTime |-> FALSE]

DebateInit ==
  /\ config \in { [rounds |-> n, streaming |-> s, moderator |-> b.moderator,
                   challenger |-> b.challenger, defender |-> b.defender] :
                  n \in 0..MaxRounds, s \in BOOLEAN, b \in RoleBindings }
  /\ pc = "idle"
  /\ roundNo = 0
  /\ probes = [r \in DebateRole |-> "pending"]
  /\ messages = <<>>
  /\ result = NoResult
  /\ events = <<>>
  /\ calls = <<>>
  /\ chunks = 0
  /\ runs = 0
  /\ nextId = 1
  /\ frame = NoFrame
  /\ base = 0


DebateIdle ==
  /\ config = [rounds |-> 0, streaming |-> FALSE, moderator |-> CLAUDE,
               challenger |-> CODEX, defender |-> GEMINI]
  /\ pc = "idle"
  /\ roundNo = 0
  /\ probes = [r \in DebateRole |-> "pending"]
  /\ messages = <<>>
  /\ result = NoResult
  /\ events = <<>>
  /\ calls = <<>>
  /\ chunks = 0
  /\ runs = 0
  /\ nextId = 1
  /\ frame = NoFrame
  /\ base = 0

(***************************************************************************)
(* DebateOrchestrator.run and the phases it awaits.                        *)
(***************************************************************************)
\* run() is called: the result object is created and checkAgentsAvailable
\* starts the three isAvailable() probes, which run concurrently
Run ==
  /\ pc \in {"idle", "returned"}
  /\ runs < MaxRuns
  /\ runs' = runs + 1
  /\ result' = NoResult
  /\ probes' = [r \in DebateRole |-> "pending"]
  /\ events' = <<>>
  /\ calls' = <<>>
  /\ chunks' = 0
  /\ roundNo' = 0
  /\ pc' = "check"
  /\ frame' = NoFrame
  /\ base' = Len(messages)
  /\ UNCHANGED nonDebateVars
  /\ UNCHANGED <<config, messages, nextId>>

\* checkCommandExists resolves for one agent: 'close' with code 0 or not, or 'error'
ProbeResolved(role, available) ==
  /\ pc = "check"
  /\ probes[role] = "pending"
  /\ probes' = [probes EXCEPT ![role] = IF available THEN "yes" ELSE "no"]
  /\ UNCHANGED nonDebateVars
  /\ UNCHANGED <<config, pc, roundNo, messages, result, events, calls, chunks, runs, nextId,
                 frame, base>>

\* Promise.all of the probes has resolved: run() throws when an agent is
\* missing, else emits debate:start and executeOpening runs up to its await
AvailabilityChecked ==
  /\ pc = "check"
  /\ \A r \in DebateRole : probes[r] # "pending"
  /\ LET errors == checkAgentsAvailable(probes) IN
       IF errors # <<>>
         THEN /\ Catch(result, UnavailableMessage(errors), events)
              /\ UNCHANGED <<calls>>
         ELSE /\ result' = [result EXCEPT !.status = IN_PROGRESS]
              /\ events' = events \o
                   << [type |-> "debate:start"],
                      [type |-> "phase:start", phase |-> OPENING],
                      [type |-> "message:start", role |-> MODERATOR,
                       cliType |-> config.moderator] >>
              /\ calls' = Append(calls, Invoke(MODERATOR, config.moderator,
                                               getModeratorOpeningPrompt))
              /\ pc' = "opening"
  /\ UNCHANGED nonDebateVars
  /\ UNCHANGED <<config, roundNo, probes, messages, chunks, runs, nextId, frame, base>>

\* a faulty variant: chunks are republished whatever the streaming option says
Republish_Always(emitted, streaming, event) == Append(emitted, event)

\* the onChunk callback of a step, and the stdout handler of the build check:
\* `if (this.config.streaming) this.emit('message:chunk', {chunk, ...})`
Republish(emitted, streaming, event) ==
  IF streaming THEN Append(emitted, event) ELSE emitted

\* stdout 'data' of the call in flight: onChunk emits message:chunk when streaming
Chunk ==
  /\ pc \in {"opening", "challenge", "defend", "evaluate", "final"}
  /\ chunks < MaxChunks
  /\ chunks' = chunks + 1
  /\ events' = Republish(events, config.streaming,
                         [type |-> "message:chunk", chunk |-> chunks + 1,
                          role |-> calls[Len(calls)].role])
  /\ UNCHANGED nonDebateVars
  /\ UNCHANGED <<config, pc, roundNo, probes, messages, result, calls, runs, nextId, frame, base>>

\* run() after a phase has returned: executeRound(i) starts when the loop test
\* holds, else executeFinalVerdict starts; both run up to their first await
Continue(i, msgs, res, emitted, cs) ==
  IF MoreRounds(i)
    THEN /\ events' = emitted \o RoundStartEvents(i)
         /\ calls' = Append(cs, Invoke(CHALLENGER, config.challenger,
                                       getChallengerPrompt(i, msgs)))
         /\ roundNo' = i
         /\ pc' = "challenge"
         /\ result' = res
    ELSE /\ events' = emitted \o FinalStartEvents
         /\ calls' = Append(cs, Invoke(MODERATOR, config.moderator,
                                       getModeratorFinalVerdictPrompt(msgs)))
         /\ roundNo' = i
         /\ pc' = "final"
         /\ result' = res

\* the moderator's opening execute() resolves: executeOpening finishes and run()
\* goes on to executeRound(1), or to executeFinalVerdict when rounds = 0
OpeningResolved(res) ==
  /\ pc = "opening"
  /\ UNCHANGED chunks
  /\ IF ExecFailed(res)
       THEN /\ Catch(result, StepFailedMessage("moderator opening failed:", res.error),
                     events)
            /\ calls' = ResolveLast(calls, res)
            /\ UNCHANGED <<messages, nextId, roundNo>>
       ELSE LET message == createMessage(nextId, MODERATOR, config.moderator,
                                         res.output, OPENING, NoRound)
                msgs == Append(messages, message)
            IN  /\ messages' = msgs
                /\ nextId' = nextId + 1
                /\ Continue(1, msgs, [result EXCEPT !.opening = message],
                            events \o << [type |-> "message:end", message |-> message.id],
                                         [type |-> "phase:end", phase |-> OPENING] >>,
                            ResolveLast(calls, res))
  /\ UNCHANGED nonDebateVars
  /\ UNCHANGED <<config, probes, runs, frame, base>>

\* executeRound, step 1: the challenger's execute() resolves
ChallengerResolved(res) ==
  /\ pc = "challenge"
  /\ UNCHANGED chunks
  /\ IF ExecFailed(res)
       THEN /\ Catch(result, StepFailedMessage("challenger failed:", res.error), events)
            /\ calls' = ResolveLast(calls, res)
            /\ UNCHANGED <<messages, nextId, frame>>
       ELSE LET message == createMessage(nextId, CHALLENGER, config.challenger,
                                         res.output, ROUND, roundNo)
                msgs == Append(messages, message)
            IN  /\ messages' = msgs
                /\ nextId' = nextId + 1
                /\ frame' = [frame EXCEPT !.challengerMessage = message]
                /\ events' = events \o
                     << [type |-> "message:end", message |-> message.id],
                        [type |-> "message:start", role |-> DEFENDER,
                         cliType |-> config.defender] >>
                /\ calls' = Append(ResolveLast(calls, res),
                                   Invoke(DEFENDER, config.defender,
                                          getDefenderPrompt(roundNo, msgs)))
                /\ pc' = "defend"
                /\ UNCHANGED result
  /\ UNCHANGED nonDebateVars
  /\ UNCHANGED <<config, probes, runs, roundNo, base>>

\* executeRound, step 2: the defender's execute() resolves
DefenderResolved(res) ==
  /\ pc = "defend"
  /\ UNCHANGED chunks
  /\ IF ExecFailed(res)
       THEN /\ Catch(result, StepFailedMessage("defender failed:", res.error), events)
            /\ calls' = ResolveLast(calls, res)
            /\ UNCHANGED <<messages, nextId, frame>>
       ELSE LET message == createMessage(nextId, DEFENDER, config.defender,
                                         res.output, ROUND, roundNo)
                msgs == Append(messages, message)
            IN  /\ messages' = msgs
                /\ nextId' = nextId + 1
                /\ frame' = [frame EXCEPT !.defenderMessage = message]
                /\ events' = events \o
                     << [type |-> "message:end", message |-> message.id],
                        [type |-> "message:start", role |-> MODERATOR,
                         cliType |-> config.moderator] >>
                /\ calls' = Append(ResolveLast(calls, res),
                                   Invoke(MODERATOR, config.moderator,
                                          getModeratorEvaluationPrompt(roundNo, msgs)))
                /\ pc' = "evaluate"
                /\ UNCHANGED result
  /\ UNCHANGED nonDebateVars
  /\ UNCHANGED <<config, probes, runs, roundNo, base>>

\* executeRound, step 3: the moderator's evaluation resolves, the RoundResult is
\* pushed on result.rounds and the loop of run() goes on
EvaluationResolved(res) ==
  /\ pc = "evaluate"
  /\ UNCHANGED chunks
  /\ IF ExecFailed(res)
       THEN /\ Catch(result, StepFailedMessage("moderator evaluation failed:", res.error),
                     events)
            /\ calls' = ResolveLast(calls, res)
            /\ UNCHANGED <<messages, nextId, frame, roundNo>>
       ELSE LET message == createMessage(nextId, MODERATOR, config.moderator,
                                         res.output, ROUND, roundNo)
                msgs == Append(messages, message)
                roundResult == [roundNumber |-> roundNo,
                                challengerMessage |-> frame.challengerMessage,
                                defenderMessage |-> frame.defenderMessage,
                                moderatorEvaluation |-> message]
            IN  /\ messages' = msgs
                /\ nextId' = nextId + 1
                /\ frame' = NoFrame
                /\ Continue(roundNo + 1, msgs,
                            [result EXCEPT !.rounds = Append(@, roundResult)],
                            events \o << [type |-> "message:end", message |-> message.id],
                                         [type |-> "round:end", roundNumber |-> roundNo] >>,
                            ResolveLast(calls, res))
  /\ UNCHANGED nonDebateVars
  /\ UNCHANGED <<config, probes, runs, base>>

\* executeFinalVerdict: the moderator's execute() resolves; run() returns
FinalResolved(res) ==
  /\ pc = "final"
  /\ UNCHANGED chunks
  /\ calls' = ResolveLast(calls, res)
  /\ IF ExecFailed(res)
       THEN /\ Catch(result, StepFailedMessage("final verdict failed:", res.error), events)
            /\ UNCHANGED <<messages, nextId>>
       ELSE LET message == createMessage(nextId, MODERATOR, config.moderator,
                                         res.output, FINAL, NoRound)
            IN  /\ messages' = Append(messages, message)
                /\ nextId' = nextId + 1
                /\ result' = [result EXCEPT !.finalVerdict = message,
                                            !.status = COMPLETED, !.endTime = TRUE]
                /\ events' = events \o
                     << [type |-> "message:end", message |-> message.id],
                        [type |-> "phase:end", phase |-> FINAL],
                        [type |-> "debate:end", status |-> COMPLETED] >>
                /\ pc' = "returned"
  /\ UNCHANGED nonDebateVars
  /\ UNCHANGED <<config, probes, runs, roundNo, frame, base>>

Next ==
  \/ Run
  \/ \E role \in DebateRole, available \in BOOLEAN : ProbeResolved(role, available)
  \/ AvailabilityChecked
  \/ Chunk
  \/ \E res \in ExecResults : OpeningResolved(res)
  \/ \E res \in ExecResults : ChallengerResolved(res)
  \/ \E res \in ExecResults : DefenderResolved(res)
  \/ \E res \in ExecResults : EvaluationResolved(res)
  \/ \E res \in ExecResults : FinalResolved(res)



(***************************************************************************)
(* Properties of the debate run.                                           *)
(***************************************************************************)
\* every execute() call of the current run has resolved with success
AllSucceeded ==
  \A k \in 1..Len(calls) : calls[k].state = Resolved /\ calls[k].res.success

\* the run has returned after invoking executors, all of which succeeded
SuccessfulRunReturned == pc = "returned" /\ calls # <<>> /\ AllSucceeded

\* the transcript is: opening, then challenger/defender/moderator per round, then final
TranscriptShape(msgs, n) ==
  /\ Len(msgs) = 2 + 3 * n
  /\ msgs[1].phase = OPENING /\ msgs[1].role = MODERATOR
  /\ \A k \in 1..n :
       /\ msgs[3 * k - 1].role = CHALLENGER
       /\ msgs[3 * k].role = DEFENDER
       /\ msgs[3 * k + 1].role = MODERATOR
       /\ \A j \in (3 * k - 1)..(3 * k + 1) :
            msgs[j].phase = ROUND /\ msgs[j].roundNumber = k
  /\ msgs[2 + 3 * n].phase = FINAL /\ msgs[2 + 3 * n].role = MODERATOR

\* the result of a completed run: N RoundResults numbered 1..N, an opening
\* and a final verdict
ResultShape(res, n) ==
  /\ res.status = COMPLETED
  /\ Len(res.rounds) = n
  /\ \A k \in 1..n : res.rounds[k].roundNumber = k
  /\ res.opening # NoMessage
  /\ res.finalVerdict # NoMessage

\* C1: a debate run in which every executor invocation succeeds returns
\* Completed with exactly N RoundResults numbered 1..N, an opening and a final
\* verdict; the transcript holds exactly 2+3N messages in the order opening,
\* challenger/defender/moderator per round, final verdict; with N = 0 the
\* executors invoked are the opening and the final verdict only.
C1_SuccessfulRun ==
  SuccessfulRunReturned =>
    /\ ResultShape(result, config.rounds)
    /\ TranscriptShape(messages, config.rounds)
    /\ (config.rounds = 0 => Len(calls) = 2)

\* what does hold of every successful run: the result has the stated shape and
\* the messages the run itself appended have the stated shape
SuccessfulRunOwnMessages ==
  SuccessfulRunReturned =>
    /\ ResultShape(result, config.rounds)
    /\ TranscriptShape(SubSeq(messages, base + 1, Len(messages)), config.rounds)
    /\ (config.rounds = 0 => Len(calls) = 2)


\* the roles whose agent reported unavailable in the current run
UnavailableRoles == { r \in DebateRole : probes[r] = "no" }

\* the cliType bound to a role
BoundCLI(role) ==
  IF role = MODERATOR THEN config.moderator
  ELSE IF role = CHALLENGER THEN config.challenger
  ELSE config.defender

\* the roles an unavailability error string names
RolesNamed(error) ==
  { r \in DebateRole :
      \E k \in 1..Len(error[2]) : error[2][k] = RoleUnavailable(r, BoundCLI(r)) }

\* C2: when at least one of the three agents reports unavailable, the run
\* returns Failed with an error naming every unavailable role (and no other),
\* no executor is invoked, no Message is created and no phase:start is emitted.
C2_UnavailableAborts ==
  (pc = "returned" /\ UnavailableRoles # {}) =>
    /\ result.status = FAILED
    /\ result.error[1] = UnavailableMessage(<<>>)[1]
    /\ RolesNamed(result.error) = UnavailableRoles
    /\ calls = <<>>
    /\ Len(messages) = base
    /\ result.opening = NoMessage
    /\ \A k \in 1..Len(events) : events[k].type # "phase:start"

\* C2 witness: a run has returned after two agents reported unavailable
C2_Witness ==
  /\ pc = "returned"
  /\ Cardinality(UnavailableRoles) = 2
  /\ result.status = FAILED

\* the text a failed run reports for a failed call
FailureText(call) ==
  StepFailedMessage(
    IF call.prompt.template = "moderator-opening" THEN "moderator opening failed:"
    ELSE IF call.prompt.template = "challenger" THEN "challenger failed:"
    ELSE IF call.prompt.template = "defender" THEN "defender failed:"
    ELSE IF call.prompt.template = "moderator-evaluation"
      THEN "moderator evaluation failed:"
    ELSE "final verdict failed:",
    call.res.error)

\* C3: a failed executor invocation (nonzero exit, launch failure or timeout)
\* in Opening, in a round sub-step or in Final is the last invocation of its
\* run: nothing is invoked after it, no step is invoked twice, and the run has
\* returned Failed carrying the failure's error text.
C3_FailureAborts ==
  /\ \A k \in 1..Len(calls) :
       (calls[k].state = Resolved /\ ~calls[k].res.success) =>
         /\ k = Len(calls)
         /\ pc = "returned"
         /\ result.status = FAILED
         /\ result.error = FailureText(calls[k])
         /\ result.error[2] = calls[k].res.error
         /\ result.finalVerdict = NoMessage
  /\ \A j, k \in 1..Len(calls) : j # k => calls[j].prompt # calls[k].prompt

\* C3 witness: the defender timed out in round 2 and the run returned
C3_Witness ==
  /\ pc = "returned"
  /\ Len(calls) = 6
  /\ calls[6].prompt.template = "defender"
  /\ calls[6].prompt.roundNumber = 2
  /\ calls[6].res \in { TimeoutResult(StdoutText, d) : d \in Durations }
  /\ result.status = FAILED

\* the call was made with a prompt built from the whole transcript as it stood,
\* which ended with a message of `role` created in round n
BuiltAfter(call, role, n) ==
  LET h == call.prompt.history IN
    /\ h # <<>>
    /\ Len(h) <= Len(messages)
    /\ h = MessageIds(SubSeq(messages, 1, Len(h)))
    /\ messages[Len(h)].role = role
    /\ messages[Len(h)].roundNumber = n
    /\ Len(h) > base

\* C4: in each round the Challenger, Defender and Moderator are invoked in
\* that order, each after the previous call has resolved and with a prompt
\* built from a transcript that ends with the previous step's Message; round
\* n+1 starts after the evaluation of round n has resolved; at most one
\* executor invocation is in flight at any time.
C4_SequentialSteps ==
  /\ Cardinality({ k \in 1..Len(calls) : calls[k].state = Running }) <= 1
  /\ \A k \in 1..Len(calls) :
       LET c == calls[k]
           n == c.prompt.roundNumber
       IN  /\ (k < Len(calls) => c.state = Resolved /\ c.res.success)
           /\ (c.prompt.template = "challenger" =>
                 /\ c.role = CHALLENGER
                 /\ k > 1
                 /\ IF n = 1
                      THEN calls[k - 1].prompt.template = "moderator-opening"
                      ELSE /\ calls[k - 1].prompt.template = "moderator-evaluation"
                           /\ calls[k - 1].prompt.roundNumber = n - 1
                           /\ BuiltAfter(c, MODERATOR, n - 1))
           /\ (c.prompt.template = "defender" =>
                 /\ c.role = DEFENDER
                 /\ k > 1
                 /\ calls[k - 1].prompt.template = "challenger"
                 /\ calls[k - 1].prompt.roundNumber = n
                 /\ BuiltAfter(c, CHALLENGER, n))
           /\ (c.prompt.template = "moderator-evaluation" =>
                 /\ c.role = MODERATOR
                 /\ k > 1
                 /\ calls[k - 1].prompt.template = "defender"
                 /\ calls[k - 1].prompt.roundNumber = n
                 /\ BuiltAfter(c, DEFENDER, n))

\* C4 witness: the moderator's evaluation of round 2 is in flight
C4_Witness ==
  /\ pc = "evaluate"
  /\ roundNo = 2
  /\ calls[Len(calls)].state = Running
  /\ calls[Len(calls)].prompt.template = "moderator-evaluation"


(***************************************************************************)
(* BaseCLIAgent.execute: one call, the events of its child process and     *)
(* its timer.  Time is counted in ticks; a timer fires when its delay has  *)
(* elapsed, before time moves on.                                          *)
(***************************************************************************)
\* largest timeout, in ticks
MaxTimeout == 2
\* latest time at which execute() is called
MaxStart == 1
\* stdout chunks of one child process
MaxStdout == 2
\* stderr chunks of one child process
MaxStderr == 1
\* 'error' events of one child process
MaxProcErrors == 1

\* the last tick of the clock: every timer armed in the model can fire
MaxTime == MaxStart + MaxTimeout + 1

\* the chunks stdout and stderr deliver
ChunkTexts == {"a", WS}
StderrTexts == {"e"}
\* exit codes of 'close'; -1 stands for null (the process was ended by a signal)
ExitCodes == {0, 1, -1}
\* err.message of an 'error' event
ErrorMessages == {<<"ENOENT">>}

\* `options.timeout || this.timeout`
EffectiveTimeout(t) == IF t.option # 0 THEN t.option ELSE t.own

\* the guards `if (!resolved)` of the three resolution paths
TimerGuard == ~resolved

\* a faulty variant: the close handler resolves whatever the flag says
CloseGuard_Unguarded == TRUE

CloseGuard == ~resolved

ErrorGuard == ~resolved

ExecInit ==
  /\ xpc = "idle"
  /\ timeouts \in [option : 0..MaxTimeout, own : 0..MaxTimeout]
  /\ now = 0
  /\ startTime = 0
  /\ output = <<>>
  /\ errorOutput = <<>>
  /\ resolved = FALSE
  /\ timer = "none"
  /\ proc = "none"
  /\ procErrors = 0
  /\ settled = <<>>
  /\ terminators = <<>>
  /\ delivered = <<>>
  /\ signals = <<>>

\* execute() is called and runs to its return: the process is spawned, the
\* timer is armed and the handlers are registered
Execute ==
  /\ xpc = "idle"
  /\ xpc' = "called"
  /\ startTime' = now
  /\ output' = <<>>
  /\ errorOutput' = <<>>
  /\ resolved' = FALSE
  /\ proc' = "running"
  /\ timer' = "armed"
  /\ UNCHANGED <<timeouts, now, procErrors, settled, terminators, delivered, signals>>
  /\ UNCHANGED nonExecVars

\* the clock advances; an armed timer whose delay has elapsed fires first.
\* Date.now() is read by execute() at its start and by the resolution path
\* that runs, so the clock matters only until the timer is cleared or fired.
Tick ==
  /\ now < MaxTime
  /\ xpc = "idle" \/ timer = "armed"
  /\ xpc = "idle" => now < MaxStart
  /\ timer = "armed" => now < startTime + EffectiveTimeout(timeouts)
  /\ now' = now + 1
  /\ UNCHANGED <<xpc, timeouts, startTime, output, errorOutput, resolved, timer, proc,
                 procErrors, settled, terminators, delivered, signals>>
  /\ UNCHANGED nonExecVars

\* the setTimeout callback
TimerFires ==
  /\ timer = "armed"
  /\ now >= startTime + EffectiveTimeout(timeouts)
  /\ timer' = "fired"
  /\ terminators' = Append(terminators,
       [kind |-> "timeout", code |-> 0, message |-> <<>>, at |-> now,
        stdout |-> delivered, stderr |-> errorOutput, proc |-> proc])
  /\ IF TimerGuard
       THEN /\ resolved' = TRUE
            /\ signals' = Append(signals, [signal |-> "SIGTERM", at |-> now])
            /\ settled' = Append(settled, TimeoutResult(output, now - startTime))
       ELSE UNCHANGED <<resolved, signals, settled>>
  /\ UNCHANGED <<xpc, timeouts, now, startTime, output, errorOutput, proc, procErrors,
                 delivered>>
  /\ UNCHANGED nonExecVars

\* stdout 'data': the chunk is appended to output and handed to onChunk
StdoutData(chunk) ==
  /\ proc = "running"
  /\ Len(delivered) < MaxStdout
  /\ output' = Append(output, chunk)
  /\ delivered' = Append(delivered, chunk)
  /\ UNCHANGED <<xpc, timeouts, now, startTime, errorOutput, resolved, timer, proc,
                 procErrors, settled, terminators, signals>>
  /\ UNCHANGED nonExecVars

\* stderr 'data': the chunk is appended to errorOutput
StderrData(chunk) ==
  /\ proc = "running"
  /\ Len(errorOutput) < MaxStderr
  /\ errorOutput' = Append(errorOutput, chunk)
  /\ UNCHANGED <<xpc, timeouts, now, startTime, output, resolved, timer, proc,
                 procErrors, settled, terminators, delivered, signals>>
  /\ UNCHANGED nonExecVars

\* 'close' with an exit code
Close(code) ==
  /\ proc = "running"
  /\ proc' = "closed"
  /\ terminators' = Append(terminators,
       [kind |-> "close", code |-> code, message |-> <<>>, at |-> now,
        stdout |-> delivered, stderr |-> errorOutput, proc |-> proc])
  /\ IF CloseGuard
       THEN /\ resolved' = TRUE
            /\ timer' = IF timer = "armed" THEN "cleared" ELSE timer
            /\ settled' = Append(settled,
                                 CloseResult(code, output, errorOutput, now - startTime))
       ELSE UNCHANGED <<resolved, timer, settled>>
  /\ UNCHANGED <<xpc, timeouts, now, startTime, output, errorOutput, procErrors,
                 delivered, signals>>
  /\ UNCHANGED nonExecVars

\* 'error' of the child process (it could not be spawned, or not be killed)
ProcError(message) ==
  /\ proc \in {"running", "closed"}
  /\ procErrors < MaxProcErrors
  /\ procErrors' = procErrors + 1
  /\ terminators' = Append(terminators,
       [kind |-> "error", code |-> 0, message |-> message, at |-> now,
        stdout |-> delivered, stderr |-> errorOutput, proc |-> proc])
  /\ IF ErrorGuard
       THEN /\ resolved' = TRUE
            /\ timer' = IF timer = "armed" THEN "cleared" ELSE timer
            /\ settled' = Append(settled, ErrorResult(message, now - startTime))
       ELSE UNCHANGED <<resolved, timer, settled>>
  /\ UNCHANGED <<xpc, timeouts, now, startTime, output, errorOutput, proc, delivered,
                 signals>>
  /\ UNCHANGED nonExecVars

NextExec ==
  \/ Execute
  \/ Tick
  \/ TimerFires
  \/ \E chunk \in ChunkTexts : StdoutData(chunk)
  \/ \E chunk \in StderrTexts : StderrData(chunk)
  \/ \E code \in ExitCodes : Close(code)
  \/ \E message \in ErrorMessages : ProcError(message)


(***************************************************************************)
(* Properties of execute().                                                *)
(***************************************************************************)
\* the value resolve() is given by the handler of terminating event t, from
\* what had been streamed when t occurred
ResolutionOf(t) ==
  IF t.kind = "timeout" THEN TimeoutResult(t.stdout, t.at - startTime)
  ELSE IF t.kind = "close" THEN CloseResult(t.code, t.stdout, t.stderr, t.at - startTime)
  ELSE ErrorResult(t.message, t.at - startTime)

\* C5: for every interleaving of stdout data, stderr data, close, error and
\* timer expiry of one execute() call, resolve() is called at most once, and
\* exactly once as soon as one of close / error / timeout has occurred: the
\* first of them determines the result, a later one changes nothing.
C5_ResolvesOnce ==
  /\ Len(settled) <= 1
  /\ resolved = (settled # <<>>)
  /\ terminators # <<>> =>
       /\ Len(settled) = 1
       /\ settled[1] = ResolutionOf(terminators[1])

\* C5 witness: close, error and the timer race; a second terminating event
\* has occurred after the call resolved
C5_Witness ==
  /\ Len(terminators) >= 2
  /\ terminators[1].kind = "timeout"
  /\ terminators[2].kind = "close"
  /\ Len(settled) = 1

\* C6: a call whose process has not exited when its timeout T has elapsed
\* since invocation start resolves at that moment (not earlier and without
\* waiting for the exit) as a failure with the timeout sentinel, `output`
\* holding every chunk streamed before expiry, and the process is sent
\* SIGTERM at that moment.  T is options.timeout, or this.timeout when
\* options.timeout is not set (falsy).
C6_TimeoutResolution ==
  (terminators # <<>> /\ terminators[1].kind = "timeout") =>
    LET t == terminators[1]
        r == settled[1]
    IN  /\ Len(settled) = 1
        /\ t.at = startTime + EffectiveTimeout(timeouts)
        /\ r.duration = EffectiveTimeout(timeouts)
        /\ r.success = FALSE
        /\ r.error = TIMEOUT_ERROR
        /\ r.output = t.stdout
        /\ t.proc = "running"
        /\ signals = << [signal |-> "SIGTERM", at |-> t.at] >>

\* C6 witness: a call made at time 1 with options.timeout 2 timed out after
\* two chunks, the second one whitespace, had been streamed
C6_Witness ==
  /\ settled # <<>>
  /\ settled[1].error = TIMEOUT_ERROR
  /\ timeouts.option = 2 /\ timeouts.own = 1
  /\ startTime = 1
  /\ settled[1].output = <<"a", WS>>
  /\ proc = "running"

MaxIssues == 2
\* largest number of entries of a confirmedIssues array
MaxEntries == 2

BUG == "bug"
SECURITY == "security"
PERFORMANCE == "performance"
DESIGN == "design"
IssueType == {BUG, SECURITY, PERFORMANCE, DESIGN}

CRITICAL == "critical"
HIGH == "high"
MEDIUM == "medium"
LOW == "low"
IssueSeverity == {CRITICAL, HIGH, MEDIUM, LOW}

\* a property value: absent (undefined), a string, or a value of another type
Absent == [t |-> "absent", v |-> ""]
Str(v) == [t |-> "string", v |-> v]
Num == [t |-> "number", v |-> ""]

\* String.prototype.toLowerCase on the strings of the model
ToLowerCase(v) ==
  IF v = "CODEX" THEN "codex"
  ELSE IF v = "Gemini" THEN "gemini"
  ELSE IF v = "HIGH" THEN "high"
  ELSE IF v = "Security" THEN "security"
  ELSE v

\* the keys an object literal inherits from Object.prototype: a lookup of one
\* of them finds a (truthy) value that is none of the literal's own values
InheritedKeys == {"constructor", "__proto__"}
Inherited(key) == "Object.prototype." \o key

\* `id: issue-${index + 1}`, for the 1-based position of the issue
IssueId(position) == "issue-" \o ToString(position)

\* the value of assignedTo of an issue that has none
Unassigned == "unassigned"

\* a thrown exception / a returned value
Throw == [throws |-> TRUE, value |-> <<>>]
Return(v) == [throws |-> FALSE, value |-> <<v>>]
ValueOf(r) == r.value[1]

\* a lookup `map[key?.toLowerCase()] || fallback` in an object literal whose
\* own keys and values are the strings of `own`
Lookup(own, key, fallback) ==
  IF key.t = "absent" THEN Return(fallback)
  ELSE IF key.t # "string" THEN Throw
  ELSE LET k == ToLowerCase(key.v) IN
       IF k \in own THEN Return(k)
       ELSE IF k \in InheritedKeys THEN Return(Inherited(k))
       ELSE Return(fallback)

\* parseCLIType: cliMap[cli?.toLowerCase()] || CLIType.CLAUDE
parseCLIType(cli) == Lookup(CLIType, cli, CLAUDE)

\* a faulty variant: every issue is given the default type
parseIssueType_AlwaysBug(type) == Return(BUG)

\* parseIssueType: typeMap[type?.toLowerCase()] || IssueType.BUG
parseIssueType(type) == Lookup(IssueType, type, BUG)

\* parseSeverity: severityMap[severity?.toLowerCase()] || IssueSeverity.MEDIUM
parseSeverity(severity) == Lookup(IssueSeverity, severity, MEDIUM)

\* an element of a JSON array: null, a number, or an object.  The properties
\* read by the parsers are issueId, confirmed (truthy or not) and assignTo of a
\* verdict entry, and type and severity of an issue entry.
NullEntry ==
  [t |-> "null", issueId |-> Absent, confirmed |-> FALSE, assignTo |-> Absent,
   type |-> Absent, severity |-> Absent]
NumberEntry ==
  [t |-> "number", issueId |-> Absent, confirmed |-> FALSE, assignTo |-> Absent,
   type |-> Absent, severity |-> Absent]
VerdictEntry(issueId, confirmed, assignTo) ==
  [t |-> "object", issueId |-> issueId, confirmed |-> confirmed, assignTo |-> assignTo,
   type |-> Absent, severity |-> Absent]
IssueEntry(type, severity) ==
  [t |-> "object", issueId |-> Absent, confirmed |-> FALSE, assignTo |-> Absent,
   type |-> type, severity |-> severity]

\* a property that should hold an array: absent, not an array, or an array
NoList == [list |-> "absent", entries |-> <<>>]
NotArray == [list |-> "other", entries |-> <<>>]
Array(entries) == [list |-> "array", entries |-> entries]

\* the text handed to JSON.parse: not JSON, null, a number, or an object with
\* its properties issues and confirmedIssues
Invalid == [t |-> "invalid", issues |-> NoList, confirmedIssues |-> NoList]
JsonNull == [t |-> "null", issues |-> NoList, confirmedIssues |-> NoList]
JsonNumber == [t |-> "number", issues |-> NoList, confirmedIssues |-> NoList]
JsonObject(issues, confirmedIssues) ==
  [t |-> "object", issues |-> issues, confirmedIssues |-> confirmedIssues]

\* an executor output: `wrapper` says how the JSON text sits in it
\*   "fenced": inside a ```json fence, "bare": it is the whole output,
\*   "prose": free text with no fence around it
Output(wrapper, body) == [wrapper |-> wrapper, body |-> body]

\* output.match(/```json\s*([\s\S]*?)\s*```/), jsonMatch ? jsonMatch[1] : output,
\* and JSON.parse of it: a value, or Invalid when JSON.parse throws
JSONparse(out) ==
  IF out.wrapper = "prose" THEN Invalid ELSE out.body

\* a CodeIssue as parseIssuesFromOutput creates it
CodeIssue(id, type, severity) ==
  [id |-> id, type |-> type, severity |-> severity, assignedTo |-> Unassigned,
   fixed |-> "undefined", fixResult |-> Undefined]

\* parsed.issues.map((issue, index) => ({id, type, severity, ...}))
RECURSIVE mapIssues(_, _)
mapIssues(entries, position) ==
  IF entries = <<>> THEN Return(<<>>)
  ELSE LET issue == Head(entries) IN
       IF issue.t = "null" THEN Throw
       ELSE LET type == parseIssueType(issue.type)
                severity == IF type.throws THEN Throw ELSE parseSeverity(issue.severity)
                rest == IF severity.throws THEN Throw
                        ELSE mapIssues(Tail(entries), position + 1)
            IN  IF rest.throws THEN Throw
                ELSE Return(<<CodeIssue(IssueId(position), ValueOf(type),
                                        ValueOf(severity))>> \o ValueOf(rest))

\* parseIssuesFromOutput
parseIssuesFromOutput(out) ==
  LET parsed == JSONparse(out) IN
    IF parsed.t = "object" /\ parsed.issues.list = "array"
      THEN LET r == mapIssues(parsed.issues.entries, 1) IN
           IF r.throws THEN <<>> ELSE ValueOf(r)
      ELSE <<>>

\* the result of find(...) when no element matches (undefined)
NotFound ==
  [t |-> "undefined", issueId |-> Absent, confirmed |-> FALSE, assignTo |-> Absent,
   type |-> Absent, severity |-> Absent]

\* parsed.confirmedIssues.find((c) => c.issueId === issue.id)
RECURSIVE find(_, _)
find(entries, id) ==
  IF entries = <<>> THEN Return(NotFound)
  ELSE LET c == Head(entries) IN
       IF c.t = "null" THEN Throw
       ELSE IF c.issueId = Str(id) THEN Return(c)
       ELSE find(Tail(entries), id)

\* the loop `for (const issue of issues)` of parseVerdictAndAssign
RECURSIVE assignLoop(_, _, _)
assignLoop(issues, entries, confirmedIssues) ==
  IF issues = <<>> THEN Return(confirmedIssues)
  ELSE LET issue == Head(issues)
           confirmed == find(entries, issue.id)
       IN  IF confirmed.throws THEN Throw
           ELSE IF ValueOf(confirmed).confirmed
             THEN LET cli == parseCLIType(ValueOf(confirmed).assignTo) IN
                  IF cli.throws THEN Throw
                  ELSE assignLoop(Tail(issues), entries,
                         Append(confirmedIssues,
                                [issue EXCEPT !.assignedTo = ValueOf(cli)]))
             ELSE assignLoop(Tail(issues), entries, confirmedIssues)

\* parseVerdictAndAssign
parseVerdictAndAssign(out, issues) ==
  LET parsed == JSONparse(out) IN
    IF parsed.t = "object" /\ parsed.confirmedIssues.list = "array"
      THEN LET r == assignLoop(issues, parsed.confirmedIssues.entries, <<>>) IN
           IF r.throws THEN issues ELSE ValueOf(r)
      ELSE issues


(***************************************************************************)
(* One call of parseVerdictAndAssign on a discovered issue list and a      *)
(* moderator output.                                                       *)
(***************************************************************************)
\* sequences over S of length at most n
SeqUpTo(S, n) == UNION { [1..k -> S] : k \in 0..n }

\* the issue lists parseIssuesFromOutput returns: ids issue-1, issue-2, ... in order
DiscoveredIssues(n) == [k \in 1..n |-> CodeIssue(IssueId(k), BUG, MEDIUM)]

\* the values of assignTo tried
AssignTos == {Absent, Str("CODEX"), Str("gpt"), Str("constructor"), Num}

\* the entries of a confirmedIssues array tried
VerdictEntries ==
  {NullEntry, NumberEntry}
    \cup { VerdictEntry(id, c, a) :
             id \in {Str(IssueId(1)), Str(IssueId(2)), Absent},
             c \in BOOLEAN, a \in AssignTos }

\* the JSON texts of a moderator output tried
VerdictBodies ==
  {Invalid, JsonNull, JsonNumber, JsonObject(NoList, NoList), JsonObject(NoList, NotArray)}
    \cup { JsonObject(NoList, Array(es)) : es \in SeqUpTo(VerdictEntries, MaxEntries) }

VerdictOutputs ==
  { Output(w, b) : w \in {"fenced", "bare"}, b \in VerdictBodies }
    \cup { Output("prose", b) : b \in {Invalid, JsonObject(NoList, Array(<<>>))} }

NotCalled == <<>>

ParseIdle == pin = <<>> /\ pout = NotCalled

VerdictInit ==
  /\ pin \in { [output |-> o, issues |-> DiscoveredIssues(n)] :
               o \in VerdictOutputs, n \in 0..MaxIssues }
  /\ pout = NotCalled

\* parseVerdictAndAssign(output, issues) is called and returns
ParseVerdict ==
  /\ pout = NotCalled
  /\ pout' = <<parseVerdictAndAssign(pin.output, pin.issues)>>
  /\ UNCHANGED pin
  /\ UNCHANGED nonParseVars

NextVerdict == ParseVerdict


(***************************************************************************)
(* CodeReviewOrchestrator.                                                 *)
(***************************************************************************)
BUILD_CHECK == "build_check"
CODE_ANALYSIS == "code_analysis"
ISSUE_DEFENSE == "issue_defense"
VERDICT_ASSIGNMENT == "verdict_assignment"
PARALLEL_FIX == "parallel_fix"
DebatePhase ==
  {OPENING, ROUND, FINAL, BUILD_CHECK, CODE_ANALYSIS, ISSUE_DEFENSE, VERDICT_ASSIGNMENT,
   PARALLEL_FIX}

\* the constructor: the keys of this.fixers for a configured fixer list
\* (config.fixers, a sequence of cliTypes; empty when not configured)
FixerKeys(fixerList) ==
  IF fixerList = <<>> THEN CLIType
  ELSE { fixerList[k] : k \in 1..Len(fixerList) }

\* createMessage of CodeReviewOrchestrator
crCreateMessage(id, role, cliType, content, phase) ==
  [id |-> id, role |-> role, cliType |-> cliType, content |-> content,
   phase |-> phase, roundNumber |-> NoRound]

\* result.buildCheck before it is set
NoBuildCheck == [set |-> FALSE, success |-> FALSE, errors |-> <<>>]

\* the CodeReviewResult object run() starts with
NewReviewResult ==
  [status |-> PENDING, buildCheck |-> NoBuildCheck, issues |-> <<>>,
   defenseResponses |-> <<>>, verdict |-> NoMessage, fixTasks |-> <<>>,
   error |-> Undefined, endTime |-> FALSE]

\* the role -> backend bindings of the code-review configurations explored
ReviewBinding == [challenger |-> GEMINI, defender |-> CLAUDE, moderator |-> CODEX]

\* the fixer lists explored: not configured (all three backends), one backend
FixerLists == { <<>>, <<CODEX>> }

\* a call that resolved with success and this (trimmed) output
SuccessResult(out) ==
  [success |-> TRUE, output |-> out, error |-> Undefined, duration |-> 1]

\* the results explored for a fixer's execute() call: exit code 0, and a launch
\* failure, whose output is empty (a nonzero exit and a timeout are failures
\* too; they differ from it in the output text only)
FixResults ==
  { CloseResult(0, StdoutText, <<>>, 1), ErrorResult(LaunchMessage, 1) }

\* the failures an execute() call can resolve with
FailureResults == { r \in ExecResults : ~r.success }

\* the challenger outputs explored: no JSON, and fenced payloads of 0..MaxIssues issues
AnalysisOutputs ==
  { Output("prose", Invalid) }
    \cup { Output("fenced",
                  JsonObject(Array([k \in 1..n |-> IssueEntry(Str("Security"), Str("HIGH"))]),
                             NoList)) : n \in 0..MaxIssues }

\* the moderator outputs explored in a run
RunVerdictOutputs ==
  { Output("prose", Invalid),
    Output("bare", JsonObject(NoList, NoList)),
    Output("fenced", JsonObject(NoList, Array(<<>>))),
    Output("fenced", JsonObject(NoList, Array(<<NumberEntry>>))),
    Output("fenced", JsonObject(NoList, Array(<<NullEntry>>))),
    Output("fenced", JsonObject(NoList,
             Array(<<VerdictEntry(Str(IssueId(1)), FALSE, Absent)>>))),
    Output("fenced", JsonObject(NoList,
             Array(<<VerdictEntry(Str(IssueId(1)), TRUE, Str("constructor"))>>))),
    Output("fenced", JsonObject(NoList,
             Array(<<VerdictEntry(Str(IssueId(2)), TRUE, Str("Gemini")),
                     VerdictEntry(Str(IssueId(1)), TRUE, Absent)>>))),
    Output("fenced", JsonObject(NoList,
             Array(<<VerdictEntry(Str(IssueId(1)), TRUE, Str("CODEX")),
                     VerdictEntry(Str(IssueId(2)), TRUE, Str("CODEX"))>>))) }

\* the defender's free text
DefenseOutputs == { Output("prose", Invalid) }

\* a faulty variant: the run never takes the zero-issue return
NoIssues_Never(issues) == FALSE

\* `if (result.issues.length === 0)` in run()
NoIssues(issues) == Len(issues) = 0

\* a faulty variant: the auto-fix switch is not looked at
FixWanted_IgnoresAutoFix(issues) == Len(issues) > 0

\* `this.config.autoFix && confirmedIssues.length > 0` in run(), and the negation
\* of the early return of executeParallelFix
FixWanted(issues) == crConfig.autoFix /\ Len(issues) > 0

\* `issue.assignedTo || CLIType.CLAUDE`
CliOf(issue) == IF issue.assignedTo = Unassigned THEN CLAUDE ELSE issue.assignedTo

\* the keys of issuesByCliType in insertion order
RECURSIVE GroupKeys(_, _)
GroupKeys(issues, keys) ==
  IF issues = <<>> THEN keys
  ELSE LET cli == CliOf(Head(issues)) IN
       GroupKeys(Tail(issues),
                 IF \E k \in 1..Len(keys) : keys[k] = cli THEN keys ELSE Append(keys, cli))

\* issuesByCliType.get(cli)
GroupOf(issues, cli) == SelectSeq(issues, LAMBDA i : CliOf(i) = cli)

\* the (cliType, issue) pairs executeFixTask is called with, in order: the
\* groups in insertion order, a group without a fixer being skipped
RECURSIVE FixPlan(_, _, _)
FixPlan(keys, issues, fixers) ==
  IF keys = <<>> THEN <<>>
  ELSE (IF Head(keys) \in fixers
          THEN LET g == GroupOf(issues, Head(keys)) IN
               [k \in 1..Len(g) |-> [cliType |-> Head(keys), issue |-> g[k]]]
          ELSE <<>>)
       \o FixPlan(Tail(keys), issues, fixers)

\* the position in the array `issues` of the object `issue` refers to
PositionOf(issues, issue) == CHOOSE j \in 1..Len(issues) : issues[j] = issue

\* executeFixTask up to its await: the task object.  Its issue property is a
\* reference: issueAt tells which element of the confirmed-issue array is the
\* object referred to, issue is that object's value
NewTask(id, cliType, issue, at) ==
  [id |-> id, issue |-> issue, issueAt |-> at, assignedCLI |-> cliType,
   status |-> IN_PROGRESS, result |-> Undefined, hasDuration |-> FALSE]

\* prompts.ts: the code-review prompts
getCodeReviewChallengerPrompt == <<"code-review-challenger">>
getCodeReviewDefenderPrompt(issues) == <<"code-review-defender", issues>>
getCodeReviewVerdictPrompt(issues, defenseResponse) ==
  <<"code-review-verdict", issues, defenseResponse>>
getFixTaskPrompt(issue) == <<"fix-task", issue>>

\* an execute() call of the review: on a role agent, or on a fixer
ReviewCall(role, cliType, prompt) == [role |-> role, cliType |-> cliType, prompt |-> prompt]
FIXER == "fixer"

ReviewIdle ==
  /\ crInstalled = {}
  /\ crConfig = <<>>
  /\ crFixers = {}
  /\ crPc = "off"
  /\ crMessages = <<>>
  /\ crResult = <<>>
  /\ crEvents = <<>>
  /\ crCalls = <<>>
  /\ crBuild = <<>>
  /\ crTasks = <<>>
  /\ crChunks = 0
  /\ crNextId = 0
  /\ crRuns = 0
  /\ crBase = 0

\* the machines explored: every role's command exists, or one is missing
Installations == {DebateRole} \cup { DebateRole \ {r} : r \in DebateRole }

\* what execute() resolves with when the agent's command does not exist: the
\* shell exits with a nonzero code, or the spawn reports an error
Missing(res) == ~res.success /\ res.error # TIMEOUT_ERROR

\* the results the call on a role's agent can resolve with on this machine
Possible(role, res) == role \in crInstalled \/ Missing(res)

\* a CodeReviewOrchestrator after its constructor
ReviewInit ==
  /\ crInstalled \in Installations
  /\ crConfig \in [buildCommand : BOOLEAN, autoFix : BOOLEAN, streaming : BOOLEAN,
                   fixers : FixerLists]
  /\ crFixers = FixerKeys(crConfig.fixers)
  /\ crPc = "idle"
  /\ crMessages = <<>>
  /\ crResult = NewReviewResult
  /\ crEvents = <<>>
  /\ crCalls = <<>>
  /\ crBuild = <<>>
  /\ crTasks = <<>>
  /\ crChunks = 0
  /\ crNextId = 1
  /\ crRuns = 0
  /\ crBase = 0

(***************************************************************************)
(* CodeReviewOrchestrator: the handlers of one run().                      *)
(***************************************************************************)
\* executeChallengerAnalysis up to its await
StartAnalysis(emitted) ==
  /\ crEvents' = emitted \o
       << [type |-> "phase:start", phase |-> CODE_ANALYSIS],
          [type |-> "message:start", role |-> CHALLENGER,
           cliType |-> ReviewBinding.challenger] >>
  /\ crCalls' = Append(crCalls, ReviewCall(CHALLENGER, ReviewBinding.challenger,
                                           getCodeReviewChallengerPrompt))
  /\ crPc' = "analysis"

\* the catch block of run()
ReviewCatch(res, error, emitted) ==
  /\ crResult' = [res EXCEPT !.status = FAILED, !.error = error, !.endTime = TRUE]
  /\ crEvents' = emitted \o << [type |-> "error", error |-> error],
                              [type |-> "debate:end", status |-> FAILED] >>
  /\ crPc' = "returned"

\* a faulty variant: a failed FixTask fails the run
ReviewFinish_FailsWithTask(res, emitted) ==
  LET failed == \E k \in 1..Len(res.fixTasks) : res.fixTasks[k].status = FAILED IN
    /\ crResult' = [res EXCEPT !.status = IF failed THEN FAILED ELSE COMPLETED,
                               !.error = IF failed THEN <<"fix failed">> ELSE Undefined,
                               !.endTime = TRUE]
    /\ crEvents' = Append(emitted, [type |-> "debate:end",
                                    status |-> IF failed THEN FAILED ELSE COMPLETED])
    /\ crPc' = "returned"

\* the end of run(): status Completed, debate:end, return
ReviewFinish(res, emitted) ==
  /\ crResult' = [res EXCEPT !.status = COMPLETED, !.endTime = TRUE]
  /\ crEvents' = Append(emitted, [type |-> "debate:end", status |-> COMPLETED])
  /\ crPc' = "returned"

\* a faulty variant: the exit code is not looked at
BuildClosed_AlwaysOk(code) == [set |-> TRUE, success |-> TRUE, errors |-> <<>>]

\* the BuildCheckResult of the 'close' handler and of the 'error' handler
BuildClosed(code) ==
  [set |-> TRUE, success |-> (code = 0),
   errors |-> IF code # 0 THEN <<"stderr lines">> ELSE <<>>]
BuildErrored(message) == [set |-> TRUE, success |-> FALSE, errors |-> <<message>>]

\* run() after `await this.executeBuildCheck()`
AfterBuild(check, emitted) ==
  /\ crResult' = [crResult EXCEPT !.buildCheck = check]
  /\ StartAnalysis(IF check.success THEN emitted
                   ELSE Append(emitted, [type |-> "error", error |-> <<"build failed">>]))

\* run() is called on a new instance: up to the first await
ReviewRun ==
  /\ crPc = "idle"
  /\ crRuns' = crRuns + 1
  /\ crBase' = Len(crMessages)
  /\ crChunks' = 0
  /\ crTasks' = <<>>
  /\ crResult' = [NewReviewResult EXCEPT !.status = IN_PROGRESS]
  /\ IF crConfig.buildCommand
       THEN /\ crEvents' = << [type |-> "debate:start"],
                              [type |-> "phase:start", phase |-> BUILD_CHECK] >>
            /\ crBuild' = Append(crBuild, "running")
            /\ crCalls' = <<>>
            /\ crPc' = "build"
       ELSE /\ crEvents' = << [type |-> "debate:start"],
                              [type |-> "phase:start", phase |-> CODE_ANALYSIS],
                              [type |-> "message:start", role |-> CHALLENGER,
                               cliType |-> ReviewBinding.challenger] >>
            /\ crCalls' = << ReviewCall(CHALLENGER, ReviewBinding.challenger,
                                        getCodeReviewChallengerPrompt) >>
            /\ crPc' = "analysis"
            /\ UNCHANGED crBuild
  /\ UNCHANGED <<crInstalled, crConfig, crFixers, crMessages, crNextId>>
  /\ UNCHANGED nonReviewVars

\* stdout 'data' of the build process
BuildChunk ==
  /\ crPc = "build"
  /\ crChunks < MaxChunks
  /\ crChunks' = crChunks + 1
  /\ crEvents' = Republish(crEvents, crConfig.streaming,
                           [type |-> "message:chunk", chunk |-> crChunks + 1,
                            phase |-> BUILD_CHECK])
  /\ UNCHANGED <<crInstalled, crConfig, crFixers, crPc, crMessages, crResult, crCalls, crBuild, crTasks,
                 crNextId, crRuns, crBase>>
  /\ UNCHANGED nonReviewVars

\* 'close' of build process p, and what run() does when that resolves the promise
BuildClose(p, code) ==
  /\ p \in 1..Len(crBuild)
  /\ crBuild[p] \in {"running", "errored"}
  /\ crBuild' = [crBuild EXCEPT ![p] = "closed"]
  /\ LET emitted == Append(crEvents, [type |-> "phase:end", phase |-> BUILD_CHECK,
                                      success |-> (code = 0)])
     IN  IF crBuild[p] = "running"
           THEN AfterBuild(BuildClosed(code), emitted)
           ELSE /\ crEvents' = emitted
                /\ UNCHANGED <<crResult, crCalls, crPc>>
  /\ UNCHANGED <<crInstalled, crConfig, crFixers, crMessages, crTasks, crChunks, crNextId, crRuns, crBase>>
  /\ UNCHANGED nonReviewVars

\* 'error' of the build process, and what run() does when that resolves the promise
BuildError(message) ==
  /\ crPc = "build"
  /\ crBuild' = [crBuild EXCEPT ![Len(crBuild)] = "errored"]
  /\ AfterBuild(BuildErrored(message), crEvents)
  /\ UNCHANGED <<crInstalled, crConfig, crFixers, crMessages, crTasks, crChunks, crNextId, crRuns, crBase>>
  /\ UNCHANGED nonReviewVars

\* onChunk of the role agent's call in flight
ReviewChunk ==
  /\ crPc \in {"analysis", "defense", "verdict"}
  /\ crChunks < MaxChunks
  /\ crChunks' = crChunks + 1
  /\ crEvents' = Republish(crEvents, crConfig.streaming,
                           [type |-> "message:chunk", chunk |-> crChunks + 1,
                            role |-> crCalls[Len(crCalls)].role])
  /\ UNCHANGED <<crInstalled, crConfig, crFixers, crPc, crMessages, crResult, crCalls, crBuild, crTasks,
                 crNextId, crRuns, crBase>>
  /\ UNCHANGED nonReviewVars

\* the challenger's call resolves: the rest of executeChallengerAnalysis, then
\* run() up to its next await or its return
AnalysisResolved(res) ==
  /\ crPc = "analysis"
  /\ Possible(CHALLENGER, res)
  /\ IF ExecFailed(res)
       THEN /\ ReviewCatch(crResult, StepFailedMessage("challenger analysis", res.error),
                           crEvents)
            /\ UNCHANGED <<crMessages, crNextId, crCalls>>
       ELSE LET issues == parseIssuesFromOutput(res.output)
                message == crCreateMessage(crNextId, CHALLENGER, ReviewBinding.challenger,
                                           res.output, CODE_ANALYSIS)
                emitted == crEvents \o
                  << [type |-> "message:end", message |-> message.id],
                     [type |-> "phase:end", phase |-> CODE_ANALYSIS] >>
                res1 == [crResult EXCEPT !.issues = issues]
            IN  /\ crMessages' = Append(crMessages, message)
                /\ crNextId' = crNextId + 1
                /\ IF NoIssues(issues)
                     THEN /\ ReviewFinish(res1, emitted)
                          /\ UNCHANGED crCalls
                     ELSE /\ crResult' = res1
                          /\ crEvents' = emitted \o
                               << [type |-> "phase:start", phase |-> ISSUE_DEFENSE],
                                  [type |-> "message:start", role |-> DEFENDER,
                                   cliType |-> ReviewBinding.defender] >>
                          /\ crCalls' = Append(crCalls,
                               ReviewCall(DEFENDER, ReviewBinding.defender,
                                          getCodeReviewDefenderPrompt(issues)))
                          /\ crPc' = "defense"
  /\ UNCHANGED <<crInstalled, crConfig, crFixers, crBuild, crTasks, crChunks, crRuns, crBase>>
  /\ UNCHANGED nonReviewVars

\* the defender's call resolves: the rest of executeDefenderResponse, then
\* executeModeratorVerdict up to its await
DefenseResolved(res) ==
  /\ crPc = "defense"
  /\ Possible(DEFENDER, res)
  /\ IF ExecFailed(res)
       THEN /\ ReviewCatch(crResult, StepFailedMessage("defender response", res.error),
                           crEvents)
            /\ UNCHANGED <<crMessages, crNextId, crCalls>>
       ELSE LET message == crCreateMessage(crNextId, DEFENDER, ReviewBinding.defender,
                                           res.output, ISSUE_DEFENSE)
            IN  /\ crMessages' = Append(crMessages, message)
                /\ crNextId' = crNextId + 1
                /\ crResult' = [crResult EXCEPT !.defenseResponses = <<message>>]
                /\ crEvents' = crEvents \o
                     << [type |-> "message:end", message |-> message.id],
                        [type |-> "phase:end", phase |-> ISSUE_DEFENSE],
                        [type |-> "phase:start", phase |-> VERDICT_ASSIGNMENT],
                        [type |-> "message:start", role |-> MODERATOR,
                         cliType |-> ReviewBinding.moderator] >>
                /\ crCalls' = Append(crCalls,
                     ReviewCall(MODERATOR, ReviewBinding.moderator,
                                getCodeReviewVerdictPrompt(crResult.issues, message.content)))
                /\ crPc' = "verdict"
  /\ UNCHANGED <<crInstalled, crConfig, crFixers, crBuild, crTasks, crChunks, crRuns, crBase>>
  /\ UNCHANGED nonReviewVars

\* a faulty variant: the phase ends as soon as one task is no longer in progress
FixSettle_First(tasks, emitted) ==
  IF \E k \in 1..Len(tasks) : tasks[k].status # IN_PROGRESS
    THEN ReviewFinish([crResult EXCEPT !.fixTasks = tasks],
                      Append(emitted, [type |-> "phase:end", phase |-> PARALLEL_FIX]))
    ELSE /\ crEvents' = emitted
         /\ UNCHANGED <<crResult, crPc>>

\* the tail of executeParallelFix and of run() once Promise.all(fixPromises) is
\* fulfilled, which is when no task is in progress any more
FixSettle(tasks, emitted) ==
  IF \A k \in 1..Len(tasks) : tasks[k].status # IN_PROGRESS
    THEN ReviewFinish([crResult EXCEPT !.fixTasks = tasks],
                      Append(emitted, [type |-> "phase:end", phase |-> PARALLEL_FIX]))
    ELSE /\ crEvents' = emitted
         /\ UNCHANGED <<crResult, crPc>>

\* the moderator's call resolves: the rest of executeModeratorVerdict, then run()
\* and executeParallelFix up to `await Promise.all(fixPromises)`, every
\* executeFixTask having run up to its own await
VerdictResolved(res) ==
  /\ crPc = "verdict"
  /\ Possible(MODERATOR, res)
  /\ IF ExecFailed(res)
       THEN /\ ReviewCatch(crResult, StepFailedMessage("moderator verdict", res.error),
                           crEvents)
            /\ UNCHANGED <<crMessages, crNextId, crCalls, crTasks>>
       ELSE LET message == crCreateMessage(crNextId, MODERATOR, ReviewBinding.moderator,
                                           res.output, VERDICT_ASSIGNMENT)
                confirmedIssues == parseVerdictAndAssign(res.output, crResult.issues)
                emitted == crEvents \o
                  << [type |-> "message:end", message |-> message.id],
                     [type |-> "phase:end", phase |-> VERDICT_ASSIGNMENT] >>
                res1 == [crResult EXCEPT !.verdict = message, !.issues = confirmedIssues]
                plan == FixPlan(GroupKeys(confirmedIssues, <<>>), confirmedIssues, crFixers)
                tasks == [k \in 1..Len(plan) |->
                            NewTask(crNextId + k, plan[k].cliType, plan[k].issue,
                                    PositionOf(confirmedIssues, plan[k].issue))]
                started == Append(emitted, [type |-> "phase:start", phase |-> PARALLEL_FIX])
                             \o [k \in 1..Len(plan) |->
                                   [type |-> "message:start", role |-> DEFENDER,
                                    cliType |-> plan[k].cliType, taskId |-> tasks[k].id]]
            IN  /\ crMessages' = Append(crMessages, message)
                /\ IF FixWanted(confirmedIssues)
                     THEN /\ crNextId' = crNextId + 1 + Len(plan)
                          /\ crCalls' = crCalls \o
                               [k \in 1..Len(plan) |->
                                  ReviewCall(FIXER, plan[k].cliType,
                                             getFixTaskPrompt(plan[k].issue))]
                          /\ crTasks' = tasks
                          /\ IF plan = <<>>
                               THEN ReviewFinish([res1 EXCEPT !.fixTasks = <<>>],
                                      Append(started, [type |-> "phase:end",
                                                       phase |-> PARALLEL_FIX]))
                               ELSE /\ crResult' = res1
                                    /\ crEvents' = started
                                    /\ crPc' = "fix"
                     ELSE /\ crNextId' = crNextId + 1
                          /\ ReviewFinish(res1, emitted)
                          /\ UNCHANGED <<crCalls, crTasks>>
  /\ UNCHANGED <<crInstalled, crConfig, crFixers, crBuild, crChunks, crRuns, crBase>>
  /\ UNCHANGED nonReviewVars

\* onChunk of the call of fix task k
FixChunk(k) ==
  /\ crPc = "fix"
  /\ k \in 1..Len(crTasks)
  /\ crTasks[k].status = IN_PROGRESS
  /\ crChunks < MaxChunks
  /\ crChunks' = crChunks + 1
  /\ crEvents' = Republish(crEvents, crConfig.streaming,
                           [type |-> "message:chunk", chunk |-> crChunks + 1,
                            taskId |-> crTasks[k].id,
                            cliType |-> crTasks[k].assignedCLI])
  /\ UNCHANGED <<crInstalled, crConfig, crFixers, crPc, crMessages, crResult, crCalls, crBuild, crTasks,
                 crNextId, crRuns, crBase>>
  /\ UNCHANGED nonReviewVars

\* the call of fix task k resolves: the rest of executeFixTask's try block
FixResolved(k, res) ==
  /\ crPc = "fix"
  /\ k \in 1..Len(crTasks)
  /\ crTasks[k].status = IN_PROGRESS
  /\ LET tasks == [crTasks EXCEPT ![k].status = IF res.success THEN COMPLETED ELSE FAILED,
                                  ![k].result = res.output,
                                  ![k].hasDuration = TRUE]
     IN  /\ crTasks' = tasks
         /\ FixSettle(tasks, Append(crEvents, [type |-> "message:end",
                                               taskId |-> tasks[k].id,
                                               status |-> tasks[k].status]))
  /\ UNCHANGED <<crInstalled, crConfig, crFixers, crMessages, crCalls, crBuild, crChunks, crNextId,
                 crRuns, crBase>>
  /\ UNCHANGED nonReviewVars

\* the call of fix task k is rejected: executeFixTask's catch block
FixRejected(k, message) ==
  /\ crPc = "fix"
  /\ k \in 1..Len(crTasks)
  /\ crTasks[k].status = IN_PROGRESS
  /\ LET tasks == [crTasks EXCEPT ![k].status = FAILED,
                                  ![k].result = message,
                                  ![k].hasDuration = TRUE]
     IN  /\ crTasks' = tasks
         /\ FixSettle(tasks, crEvents)
  /\ UNCHANGED <<crInstalled, crConfig, crFixers, crMessages, crCalls, crBuild, crChunks, crNextId,
                 crRuns, crBase>>
  /\ UNCHANGED nonReviewVars

NextReview ==
  \/ ReviewRun
  \/ BuildChunk
  \/ \E code \in {0, 1} : BuildClose(Len(crBuild), code)
  \/ BuildError(LaunchMessage)
  \/ ReviewChunk
  \/ \E res \in FailureResults : AnalysisResolved(res)
  \/ \E out \in AnalysisOutputs : AnalysisResolved(SuccessResult(out))
  \/ \E res \in FailureResults : DefenseResolved(res)
  \/ \E out \in DefenseOutputs : DefenseResolved(SuccessResult(out))
  \/ \E res \in FailureResults : VerdictResolved(res)
  \/ \E out \in RunVerdictOutputs : VerdictResolved(SuccessResult(out))
  \/ \E k \in 1..MaxIssues : FixChunk(k)
  \/ \E k \in 1..MaxIssues, res \in FixResults : FixResolved(k, res)
  \/ \E k \in 1..MaxIssues : FixRejected(k, LaunchMessage)

(***************************************************************************)
(* Specifications: each explores one component, the others staying idle.   *)
(***************************************************************************)
Init == DebateInit /\ ExecIdle /\ ParseIdle /\ ReviewIdle /\ BusIdle /\ ListenIdle /\ PairIdle
Spec == Init /\ [][Next]_vars

InitExec == ExecInit /\ DebateIdle /\ ParseIdle /\ ReviewIdle /\ BusIdle /\ ListenIdle /\ PairIdle
SpecExec == InitExec /\ [][NextExec]_vars

InitVerdict == VerdictInit /\ DebateIdle /\ ExecIdle /\ ReviewIdle /\ BusIdle /\ ListenIdle /\ PairIdle
SpecVerdict == InitVerdict /\ [][NextVerdict]_vars

InitReview == ReviewInit /\ DebateIdle /\ ExecIdle /\ ParseIdle /\ BusIdle /\ ListenIdle /\ PairIdle
SpecReview == InitReview /\ [][NextReview]_vars

(***************************************************************************)
(* Properties of the code review.                                          *)
(***************************************************************************)
\* the challenger's call of this run has succeeded
AnalysisDone == Len(crMessages) > crBase

\* the issue list the analysis of this run yielded
DiscoveredInRun == parseIssuesFromOutput(crMessages[crBase + 1].content)

\* the moderator's call of this run has succeeded
VerdictDone == Len(crMessages) >= crBase + 3

\* the moderator's output in this run
VerdictOutputInRun == crMessages[crBase + 3].content

\* C8: once the analysis of a code-review run has yielded zero issues the run
\* has returned, with status Completed and an empty issue list; the only call
\* made is the challenger's, and the result holds no defense message, no verdict
\* and no FixTask.
C8_ZeroIssuesShortCircuit ==
  (AnalysisDone /\ DiscoveredInRun = <<>>) =>
    /\ crPc = "returned"
    /\ crResult.status = COMPLETED
    /\ crResult.issues = <<>>
    /\ \A k \in 1..Len(crCalls) : crCalls[k].role = CHALLENGER
    /\ Len(crCalls) = 1
    /\ crResult.defenseResponses = <<>>
    /\ crResult.verdict.id = NoMessage.id
    /\ crResult.fixTasks = <<>>
    /\ crTasks = <<>>
    /\ Len(crMessages) = crBase + 1

\* C8 witness: with auto-fix on, a run returned after an analysis whose JSON
\* payload lists no issue
C8_Witness ==
  /\ crPc = "returned"
  /\ crConfig.autoFix
  /\ AnalysisDone
  /\ crMessages[crBase + 1].content.wrapper = "fenced"
  /\ DiscoveredInRun = <<>>
  /\ crResult.status = COMPLETED

\* a verdict entry of the expected shape: an object with a string issueId and,
\* if it has an assignTo, a string one
WellShaped(entry) ==
  /\ entry.t = "object"
  /\ entry.issueId.t = "string"
  /\ entry.assignTo.t \in {"absent", "string"}

\* the output decodes to a payload with a confirmedIssues list
HasConfirmedList(out) ==
  /\ JSONparse(out).t = "object"
  /\ JSONparse(out).confirmedIssues.list = "array"

EntriesOf(out) == JSONparse(out).confirmedIssues.entries

AllWellShaped(out) == \A k \in 1..Len(EntriesOf(out)) : WellShaped(EntriesOf(out)[k])

\* the ids referenced by an entry marked confirmed
ConfirmedIds(out) ==
  { EntriesOf(out)[k].issueId.v :
      k \in { j \in 1..Len(EntriesOf(out)) : EntriesOf(out)[j].confirmed } }

IdsOf(issues) == [k \in 1..Len(issues) |-> issues[k].id]

\* C9, as stated: when the verdict output decodes to a payload with a
\* confirmedIssues list (of well-shaped entries), the confirmed set is exactly
\* the discovered issues whose id an entry marked confirmed references, in the
\* original order, and every kept issue is assigned to a backend identity.
C9_ConfirmedSet ==
  (pout # NotCalled /\ HasConfirmedList(pin.output) /\ AllWellShaped(pin.output)) =>
    LET Referenced(issue) == issue.id \in ConfirmedIds(pin.output) IN
      /\ IdsOf(pout[1]) = IdsOf(SelectSeq(pin.issues, Referenced))
      /\ \A k \in 1..Len(pout[1]) : pout[1][k].assignedTo \in CLIType

\* the verdict output cannot be decoded: not JSON, no confirmedIssues list, or
\* an entry of the wrong shape
Undecodable(out) == ~HasConfirmedList(out) \/ ~AllWellShaped(out)

\* C10, as stated: when the moderator's output cannot be decoded the run is not
\* failed and goes on with the full discovered issue list, in the same order
\* and with no assignedTo changed.
C10_UndecodableFallsBack ==
  (VerdictDone /\ Undecodable(VerdictOutputInRun)) =>
    /\ crResult.status # FAILED
    /\ crResult.issues = DiscoveredInRun

\* an event of this type about this phase has been emitted in this run
PhaseEvent(type, phase) ==
  \E k \in 1..Len(crEvents) :
    /\ crEvents[k].type = type
    /\ "phase" \in DOMAIN crEvents[k]
    /\ crEvents[k].phase = phase

\* a fixer's execute() has been called in this run
FixerCalled == \E k \in 1..Len(crCalls) : crCalls[k].role = FIXER

\* C11: the ParallelFix phase starts, a fix executor is invoked or a FixTask
\* exists only in a run with auto-fix enabled whose verdict left at least one
\* confirmed issue; in every other run none of these ever happens.
C11_FixOnlyIfWanted ==
  (\/ PhaseEvent("phase:start", PARALLEL_FIX)
   \/ FixerCalled
   \/ crTasks # <<>>
   \/ crResult.fixTasks # <<>>)
    => /\ crConfig.autoFix
       /\ VerdictDone
       /\ Len(crResult.issues) > 0

\* C11 witness: a run with auto-fix that ended after its fix tasks ran
C11_Witness ==
  /\ crPc = "returned"
  /\ crConfig.autoFix
  /\ FixerCalled
  /\ PhaseEvent("phase:start", PARALLEL_FIX)
  /\ crResult.fixTasks # <<>>

\* task k has reached a terminal status
Terminal(task) == task.status \in {COMPLETED, FAILED}

\* C12: phase:end of ParallelFix is published, and the run returns, only when
\* every launched FixTask is terminal; until then the run stays in the phase,
\* whatever the outcomes of the tasks that have already resolved, and the
\* tasks still in progress stay in progress.
C12_FixEndsAfterAll ==
  /\ PhaseEvent("phase:end", PARALLEL_FIX) =>
       \A k \in 1..Len(crTasks) : Terminal(crTasks[k])
  /\ (crPc = "returned" /\ crTasks # <<>>) =>
       /\ \A k \in 1..Len(crTasks) : Terminal(crTasks[k])
       /\ crResult.fixTasks = crTasks
       /\ PhaseEvent("phase:end", PARALLEL_FIX)
  /\ (\E k \in 1..Len(crTasks) : crTasks[k].status = IN_PROGRESS) =>
       /\ crPc = "fix"
       /\ ~PhaseEvent("phase:end", PARALLEL_FIX)
  /\ crPc = "fix" => \E k \in 1..Len(crTasks) : crTasks[k].status = IN_PROGRESS

\* C12 witness: the first task failed while the second was still in progress,
\* and the second then completed
C12_Witness ==
  /\ crPc = "returned"
  /\ Len(crTasks) = 2
  /\ crTasks[1].status = FAILED
  /\ crTasks[2].status = COMPLETED
  /\ \E i, j \in 1..Len(crEvents) :
       /\ i < j
       /\ crEvents[i].type = "message:end" /\ "taskId" \in DOMAIN crEvents[i]
       /\ crEvents[i].taskId = crTasks[1].id
       /\ crEvents[j].type = "message:end" /\ "taskId" \in DOMAIN crEvents[j]
       /\ crEvents[j].taskId = crTasks[2].id

\* the backends the fix tasks of this run were routed to
TaskBackends == { crTasks[k].assignedCLI : k \in 1..Len(crTasks) }

\* C13, as stated: in a run that returned with fix tasks on different backends,
\* every task is terminal, and every task whose executor failed has status
\* failed with a non-empty result and a duration.
C13_FailedTaskHasResult ==
  (crPc = "returned" /\ Cardinality(TaskBackends) > 1) =>
    \A k \in 1..Len(crTasks) :
      /\ Terminal(crTasks[k])
      /\ crTasks[k].status = FAILED =>
           /\ crTasks[k].result # Undefined
           /\ crTasks[k].result # <<>>
           /\ crTasks[k].hasDuration

\* C14, as stated: when ParallelFix has run, the result holds exactly one
\* FixTask per confirmed issue: every task's issue is a confirmed issue, every
\* confirmed issue has its task, and every task is completed or failed.
C14_OneTaskPerConfirmedIssue ==
  (crPc = "returned" /\ PhaseEvent("phase:start", PARALLEL_FIX)) =>
    /\ Len(crResult.fixTasks) = Len(crResult.issues)
    /\ \A k \in 1..Len(crResult.fixTasks) :
         /\ \E j \in 1..Len(crResult.issues) :
              crResult.issues[j].id = crResult.fixTasks[k].issue.id
         /\ Terminal(crResult.fixTasks[k])
    /\ \A j \in 1..Len(crResult.issues) :
         \E k \in 1..Len(crResult.fixTasks) :
           crResult.fixTasks[k].issue.id = crResult.issues[j].id

\* the verdict gave this confirmed issue no assignment: the verdict fell back
\* to the full list, or the entry confirming the issue names no assignTo
NoAssignment(issue) ==
  \/ issue.assignedTo = Unassigned
  \/ /\ HasConfirmedList(VerdictOutputInRun)
     /\ \E k \in 1..Len(EntriesOf(VerdictOutputInRun)) :
          /\ EntriesOf(VerdictOutputInRun)[k].issueId = Str(issue.id)
          /\ EntriesOf(VerdictOutputInRun)[k].confirmed
          /\ EntriesOf(VerdictOutputInRun)[k].assignTo = Absent

\* C15, as stated: with auto-fix on and two confirmed issues that carry no
\* assignment, two FixTasks are created on the same default backend, both
\* executors are invoked, and when the run returns both tasks are terminal.
C15_UnassignedGoToDefault ==
  (/\ crConfig.autoFix
   /\ VerdictDone
   /\ crPc \in {"fix", "returned"}
   /\ Len(crResult.issues) = 2
   /\ \A j \in 1..2 : NoAssignment(crResult.issues[j])) =>
    /\ Len(crTasks) = 2
    /\ crTasks[1].assignedCLI = CLAUDE
    /\ crTasks[2].assignedCLI = CLAUDE
    /\ Cardinality({ k \in 1..Len(crCalls) : crCalls[k].role = FIXER }) = 2
    /\ crPc = "returned" => Terminal(crTasks[1]) /\ Terminal(crTasks[2])

\* with the default fixers (all three backends) the two tasks are created on
\* the default backend and run to a terminal status in either order
UnassignedGoToDefaultIfFixer ==
  (/\ crConfig.autoFix
   /\ VerdictDone
   /\ crPc \in {"fix", "returned"}
   /\ Len(crResult.issues) = 2
   /\ \A j \in 1..2 : NoAssignment(crResult.issues[j])
   /\ CLAUDE \in crFixers) =>
    /\ Len(crTasks) = 2
    /\ crTasks[1].assignedCLI = CLAUDE
    /\ crTasks[2].assignedCLI = CLAUDE
    /\ Cardinality({ k \in 1..Len(crCalls) : crCalls[k].role = FIXER }) = 2
    /\ crPc = "returned" => Terminal(crTasks[1]) /\ Terminal(crTasks[2])

\* C16: once Analysis, Defense and Verdict have succeeded the run is never
\* Failed and never carries a top-level error, whatever the FixTasks do, and
\* it returns Completed; a fix failure shows in the task's own status only.
C16_FixFailureNotFatal ==
  VerdictDone =>
    /\ crResult.status # FAILED
    /\ crResult.error = Undefined
    /\ crPc = "returned" => crResult.status = COMPLETED
    /\ ~ \E k \in 1..Len(crEvents) : crEvents[k].type = "error" /\ crEvents[k].error # <<"build failed">>

\* C16 witness: a run returned Completed although every FixTask failed
C16_Witness ==
  /\ crPc = "returned"
  /\ crResult.status = COMPLETED
  /\ Len(crResult.fixTasks) = 2
  /\ \A k \in 1..2 : crResult.fixTasks[k].status = FAILED

\* the error event run() publishes after a failed build
BuildFailedEvent ==
  \E k \in 1..Len(crEvents) :
    crEvents[k].type = "error" /\ crEvents[k].error = <<"build failed">>

\* the build process of this run has exited nonzero before anything else ended the build check
BuildExitedNonzero ==
  /\ crResult.buildCheck.set
  /\ crResult.buildCheck.errors = <<"stderr lines">>

\* a phase:end of the build check reporting a nonzero exit has been published
\* while the promise of the build check was still pending
NonzeroBuildEnd ==
  \E k \in 1..Len(crEvents) :
    /\ crEvents[k].type = "phase:end"
    /\ crEvents[k].phase = BUILD_CHECK
    /\ ~crEvents[k].success
    /\ ~ \E j \in 1..(k - 1) : crEvents[j].type = "error"

\* C17: with a build command, a build that exits nonzero is recorded as a
\* failed build check and an error event is published, and the run goes on to
\* Analysis (the challenger is invoked) instead of ending; without a build
\* command no build process is spawned, no build-check event is published and
\* no build-check result is recorded.
C17_BuildCheck ==
  /\ ~crConfig.buildCommand =>
       /\ crBuild = <<>>
       /\ ~crResult.buildCheck.set
       /\ ~PhaseEvent("phase:start", BUILD_CHECK)
       /\ ~PhaseEvent("phase:end", BUILD_CHECK)
       /\ ~BuildFailedEvent
  /\ NonzeroBuildEnd =>
       /\ crResult.buildCheck.set
       /\ ~crResult.buildCheck.success
       /\ BuildFailedEvent
       /\ Len(crCalls) >= 1
       /\ crCalls[1].role = CHALLENGER
       /\ crPc # "build"
  /\ (crConfig.buildCommand /\ crPc \notin {"idle", "build"}) => crResult.buildCheck.set

\* C17 witness: a run whose build exited nonzero returned Completed
C17_Witness ==
  /\ crPc = "returned"
  /\ crResult.status = COMPLETED
  /\ NonzeroBuildEnd
  /\ BuildExitedNonzero
  /\ BuildFailedEvent
  /\ Len(crResult.issues) > 0

\* the calls on the three role agents in this run, and the messages it created
RoleCalls == Cardinality({ k \in 1..Len(crCalls) : crCalls[k].role # FIXER })
OwnMessages == Len(crMessages) - crBase

\* the step name in the error thrown when the call on this role's agent fails
StepOf(role) ==
  IF role = CHALLENGER THEN "challenger analysis"
  ELSE IF role = DEFENDER THEN "defender response"
  ELSE "moderator verdict"

\* the error texts of the failures an execute() call can resolve with
FailureErrors == { r.error : r \in FailureResults }

\* the phases of the three role agents that have started in this run
RolePhasesStarted ==
  Cardinality({ k \in 1..Len(crEvents) :
                  /\ crEvents[k].type = "phase:start"
                  /\ crEvents[k].phase \in {CODE_ANALYSIS, ISSUE_DEFENSE, VERDICT_ASSIGNMENT} })

\* C18: every call on a role agent has either created its message, is still
\* pending, or has failed; when one has failed it is the last call of the run,
\* the run has returned Failed with an error made of the step and the
\* failure's error text, no later phase has started and no fixer was invoked;
\* and a code-review run is Failed only in this way.
C18_RoleFailureAborts ==
  /\ RoleCalls - OwnMessages \in {0, 1}
  /\ RolePhasesStarted = RoleCalls
  /\ (RoleCalls - OwnMessages = 1 /\ crPc \notin {"analysis", "defense", "verdict"}) =>
       /\ crPc = "returned"
       /\ crResult.status = FAILED
       /\ Len(crResult.error) = 2
       /\ crResult.error[1] = StepOf(crCalls[Len(crCalls)].role)
       /\ crResult.error[2] \in FailureErrors
       /\ ~FixerCalled
       /\ crTasks = <<>>
       /\ crResult.fixTasks = <<>>
       /\ ~PhaseEvent("phase:start", PARALLEL_FIX)
  /\ crResult.status = FAILED =>
       /\ RoleCalls - OwnMessages = 1
       /\ crPc = "returned"

\* C18 witness: with auto-fix on, the moderator's call timed out after Analysis
\* and Defense had succeeded
C18_Witness ==
  /\ crPc = "returned"
  /\ crConfig.autoFix
  /\ crResult.status = FAILED
  /\ OwnMessages = 2
  /\ crCalls[Len(crCalls)].role = MODERATOR
  /\ crResult.error = <<"moderator verdict", TIMEOUT_ERROR>>

(***************************************************************************)
(* One call of parseIssuesFromOutput on a challenger output.               *)
(***************************************************************************)
\* lists of issues with a valid type and a valid severity
ValidIssueLists == SeqUpTo([type : IssueType, severity : IssueSeverity], MaxIssues)

\* the payload the challenger prompt asks for, in a ```json fence:
\* {"issues": [{"type": ..., "severity": ...}, ...]} with the enum values
EncodeIssues(list) ==
  Output("fenced",
         JsonObject(Array([k \in 1..Len(list) |->
                             IssueEntry(Str(list[k].type), Str(list[k].severity))]),
                    NoList))

\* entries of an issues array that are not what the prompt asks for
OddIssueEntries ==
  { NullEntry, NumberEntry,
    IssueEntry(Absent, Absent),
    IssueEntry(Num, Str("high")),
    IssueEntry(Str("Security"), Str("HIGH")),
    IssueEntry(Str("constructor"), Str("low")) }

\* challenger outputs other than encoded valid lists
OddIssueOutputs ==
  { Output(w, b) : w \in {"fenced", "bare", "prose"},
                   b \in {Invalid, JsonNull, JsonNumber, JsonObject(NoList, NoList),
                          JsonObject(NotArray, NoList)} }
    \cup { Output(w, JsonObject(Array(es), NoList)) :
             w \in {"fenced", "bare"},
             es \in SeqUpTo(OddIssueEntries \cup {IssueEntry(Str(BUG), Str(LOW))},
                            MaxEntries) }

IssuesInit ==
  /\ pin \in { [output |-> EncodeIssues(l), encoded |-> l] : l \in ValidIssueLists }
               \cup { [output |-> o, encoded |-> <<>>] : o \in OddIssueOutputs }
  /\ pout = NotCalled

\* parseIssuesFromOutput(output) is called and returns
ParseIssues ==
  /\ pout = NotCalled
  /\ pout' = <<parseIssuesFromOutput(pin.output)>>
  /\ UNCHANGED pin
  /\ UNCHANGED nonParseVars

NextIssues == ParseIssues

InitIssues == IssuesInit /\ DebateIdle /\ ExecIdle /\ ReviewIdle /\ BusIdle /\ ListenIdle /\ PairIdle
SpecIssues == InitIssues /\ [][NextIssues]_vars

NoIssuesList(out) ==
  ~(JSONparse(out).t = "object" /\ JSONparse(out).issues.list = "array")

\* an entry of an issues array of the wrong shape: not an object, or with a
\* type or a severity that is not a string
OddShaped(entry) ==
  \/ entry.t # "object"
  \/ entry.type.t \notin {"absent", "string"}
  \/ entry.severity.t \notin {"absent", "string"}

\* C20, as stated: for an output with no decodable JSON, for JSON without an
\* issues array and for an issues array holding an entry of the wrong shape,
\* parseIssuesFromOutput returns the empty list.
C20_UndecodableGivesNoIssues ==
  (/\ pout # NotCalled
   /\ \/ NoIssuesList(pin.output)
      \/ \E k \in 1..Len(JSONparse(pin.output).issues.entries) :
           OddShaped(JSONparse(pin.output).issues.entries[k])) =>
    pout[1] = <<>>

\* what holds: without an issues array, and when an entry is null or has a type
\* or severity that is not a string, the result is the empty list
ThrowingEntryGivesNoIssues ==
  (/\ pout # NotCalled
   /\ \/ NoIssuesList(pin.output)
      \/ \E k \in 1..Len(JSONparse(pin.output).issues.entries) :
           LET entry == JSONparse(pin.output).issues.entries[k] IN
             \/ entry.t = "null"
             \/ entry.type.t \notin {"absent", "string"}
             \/ entry.severity.t \notin {"absent", "string"}) =>
    pout[1] = <<>>

(***************************************************************************)
(* Either orchestrator: a DebateOrchestrator or a CodeReviewOrchestrator   *)
(* is constructed and run() is called on it once.                          *)
(***************************************************************************)
InitRuns == Init \/ InitReview

NextRuns ==
  \/ crPc = "off" /\ Next /\ runs' = 1
  \/ crPc # "off" /\ NextReview

SpecRuns == InitRuns /\ [][NextRuns]_vars

\* an error string that is set and not empty
ErrorText(error) == error # Undefined /\ error # <<>>

\* the contract of a returned result
TerminalResult(res) ==
  /\ res.status \in {COMPLETED, FAILED}
  /\ res.endTime
  /\ res.status = FAILED <=> ErrorText(res.error)

\* C21: every result returned by run() of either orchestrator has status
\* Completed or Failed, has an end time, and carries a non-empty error string
\* exactly when its status is Failed.
C21_TerminalResult ==
  /\ pc = "returned" => TerminalResult(result)
  /\ crPc = "returned" => TerminalResult(crResult)

\* C21 witness: a debate run has returned Failed after its opening succeeded
C21_Witness ==
  /\ pc = "returned"
  /\ result.status = FAILED
  /\ result.opening # NoMessage
  /\ ErrorText(result.error)

\* C21 witness, code review: a review run has returned Completed
C21_ReviewWitness ==
  /\ crPc = "returned"
  /\ crResult.status = COMPLETED
  /\ crResult.error = Undefined

\* the Messages a DebateResult holds: opening, the three of each RoundResult, finalVerdict
DebateResultMessages(res) ==
  ({res.opening, res.finalVerdict}
     \cup UNION { {res.rounds[k].challengerMessage, res.rounds[k].defenderMessage,
                   res.rounds[k].moderatorEvaluation} : k \in 1..Len(res.rounds) })
    \ {NoMessage}

\* the Messages a CodeReviewResult holds: defenseResponses and verdict
ReviewResultMessages(res) ==
  ({res.verdict} \cup {res.defenseResponses[k] : k \in 1..Len(res.defenseResponses)})
    \ {NoMessage}

\* C22, as stated: a result returned Failed holds all progress made before
\* the failure: in a debate every Message the run created, those of a partly
\* completed round included; in a code review the issues discovered and every
\* Message the run recorded.
C22_PartialProgressKept ==
  /\ (pc = "returned" /\ result.status = FAILED) =>
       \A k \in (base + 1)..Len(messages) : messages[k] \in DebateResultMessages(result)
  /\ (crPc = "returned" /\ crResult.status = FAILED) =>
       /\ AnalysisDone => crResult.issues = DiscoveredInRun
       /\ \A k \in (crBase + 1)..Len(crMessages) :
            crMessages[k] \in ReviewResultMessages(crResult)

\* what holds: a failed debate result holds the opening and every completed
\* round; a failed review result holds the issues discovered and the defense
\* message
CompletedProgressKept ==
  /\ (pc = "returned" /\ result.status = FAILED) =>
       \A k \in (base + 1)..Len(messages) :
         (messages[k].phase = OPENING
            \/ (messages[k].phase = ROUND /\ messages[k].roundNumber < roundNo))
           => messages[k] \in DebateResultMessages(result)
  /\ (crPc = "returned" /\ crResult.status = FAILED) =>
       /\ AnalysisDone => crResult.issues = DiscoveredInRun
       /\ \A k \in (crBase + 1)..Len(crMessages) :
            crMessages[k].phase = ISSUE_DEFENSE
              => crMessages[k] \in ReviewResultMessages(crResult)

(***************************************************************************)
(* The event bus: on() and emit(), the same in both orchestrators.         *)
(***************************************************************************)
\* listeners registered on one orchestrator, and emit() calls made on it
MaxListeners == 3
MaxEvents == 2

\* what a listener does when it is called: it returns, or it throws
ListenerKinds == {"returns", "throws"}

\* this.eventCallbacks.forEach((cb) => cb(event)): the callbacks are called in
\* array order; a callback that throws ends the loop, the exception leaving emit()
Called(callbacks) ==
  LET throwers == { k \in 1..Len(callbacks) : callbacks[k] = "throws" } IN
    IF throwers = {} THEN Len(callbacks)
    ELSE CHOOSE k \in throwers : \A j \in throwers : k <= j

BusInit ==
  /\ eventCallbacks = <<>>
  /\ published = <<>>
  /\ deliveries = <<>>

\* on(callback)
On(callback) ==
  /\ Len(eventCallbacks) < MaxListeners
  /\ eventCallbacks' = Append(eventCallbacks, callback)
  /\ UNCHANGED <<published, deliveries>>
  /\ UNCHANGED nonBusVars

\* emit(type, data): one call, from the event's creation to the end of forEach
Emit ==
  /\ Len(published) < MaxEvents
  /\ LET event == Len(published) + 1
         called == Called(eventCallbacks)
     IN  /\ deliveries' = deliveries \o
               [k \in 1..called |-> [listener |-> k, event |-> event]]
         /\ published' = Append(published,
               [listeners |-> Len(eventCallbacks),
                threw |-> (called > 0 /\ eventCallbacks[called] = "throws")])
  /\ UNCHANGED eventCallbacks
  /\ UNCHANGED nonBusVars

NextBus ==
  \/ \E callback \in ListenerKinds : On(callback)
  \/ Emit

InitBus == BusInit /\ DebateIdle /\ ExecIdle /\ ParseIdle /\ ReviewIdle /\ ListenIdle /\ PairIdle
SpecBus == InitBus /\ [][NextBus]_vars

\* event n was delivered exactly once to each listener registered when it was
\* published
DeliveredToAll(n) ==
  \A k \in 1..published[n].listeners :
    Cardinality({ i \in 1..Len(deliveries) :
                    deliveries[i] = [listener |-> k, event |-> n] }) = 1

\* the listener calls are made event by event, in publication order, and for
\* one event in registration order
DeliveredInOrder ==
  \A i, j \in 1..Len(deliveries) :
    i < j => \/ deliveries[i].event < deliveries[j].event
             \/ /\ deliveries[i].event = deliveries[j].event
                /\ deliveries[i].listener < deliveries[j].listener

\* C23, as stated: each published event is delivered to every registered
\* listener exactly once and in registration order, before the next event is
\* published, so that every listener receives the events in publication order.
C23_DeliveredToEveryListener ==
  /\ \A n \in 1..Len(published) : DeliveredToAll(n)
  /\ DeliveredInOrder

\* what holds: the calls are made in order, no listener is called twice for an
\* event, and an event whose emit() did not throw reached every listener
DeliveredUnlessThrown ==
  /\ DeliveredInOrder
  /\ \A n \in 1..Len(published) : ~published[n].threw => DeliveredToAll(n)
  /\ \A i, j \in 1..Len(deliveries) : deliveries[i] = deliveries[j] => i = j

(***************************************************************************)
(* The transcript across the run() calls of one DebateOrchestrator.        *)
(***************************************************************************)
\* the ids of the Messages created by earlier run() calls on this instance
EarlierRunIds == { messages[k].id : k \in 1..base }

\* C24, as stated: the transcript is not shared across runs: the transcript a
\* later run() on the same instance works on, and the prompts it builds, hold
\* no Message created by an earlier run.
C24_TranscriptNotShared ==
  pc # "idle" =>
    /\ \A c \in 1..Len(calls) :
         \A j \in 1..Len(calls[c].prompt.history) :
           calls[c].prompt.history[j] \notin EarlierRunIds
    /\ EarlierRunIds = {}

\* what holds: the transcript of a first run holds only its own Messages
FirstRunOwnTranscript ==
  runs = 1 => EarlierRunIds = {}

(***************************************************************************)
(* A code-review run on a machine where a role's command is missing.       *)
(***************************************************************************)
\* the run has started a phase
PhaseStarted ==
  \E k \in 1..Len(crEvents) : crEvents[k].type = "phase:start"

\* C25, as stated: when the command of the Challenger, the Defender or the
\* Moderator is missing, a code-review run ends Failed before any phase runs
\* and without invoking any executor.
C25_UnavailableDetectedPreflight ==
  (crPc \notin {"off", "idle"} /\ crInstalled # DebateRole) =>
    /\ crPc = "returned"
    /\ crResult.status = FAILED
    /\ crCalls = <<>>
    /\ crBuild = <<>>
    /\ ~PhaseStarted

\* what holds: a run whose challenger command is missing returns Failed, after
\* the analysis phase has started and the challenger's executor was invoked
MissingChallengerFailsLate ==
  (crPc = "returned" /\ CHALLENGER \notin crInstalled) =>
    /\ crResult.status = FAILED
    /\ Len(crCalls) = 1
    /\ PhaseStarted

(***************************************************************************)
(* Termination of a code-review run.  Every execute() call arms a timer    *)
(* that resolves the call if the process has not ended by then, so a call  *)
(* in flight eventually resolves.  executeBuildCheck arms no timer: its    *)
(* promise resolves only on 'close' or 'error' of the build process.       *)
(***************************************************************************)
TimersFire ==
  /\ WF_vars(\E res \in FailureResults : AnalysisResolved(res))
  /\ WF_vars(\E res \in FailureResults : DefenseResolved(res))
  /\ WF_vars(\E res \in FailureResults : VerdictResolved(res))
  /\ WF_vars(\E k \in 1..MaxIssues, res \in FixResults : FixResolved(k, res))

SpecReviewLive == InitReview /\ [][NextReview]_vars /\ TimersFire

\* run() has been called and has not returned
ReviewInProgress == crPc \in {"build", "analysis", "defense", "verdict", "fix"}

\* C26, as stated: every started run eventually returns a result with a
\* terminal status, also when a program it launches never exits, provided
\* that timers eventually fire.
C26_RunEventuallyReturns ==
  ReviewInProgress ~> (crPc = "returned" /\ crResult.status \in {COMPLETED, FAILED})

\* what holds: a run that has got past the build check eventually returns
ReturnsAfterBuild ==
  (crPc \in {"analysis", "defense", "verdict", "fix"})
    ~> (crPc = "returned" /\ crResult.status \in {COMPLETED, FAILED})

(***************************************************************************)
(* createAgent, as the constructors of the two orchestrators call it.      *)
(***************************************************************************)
\* values of cliType that are no member of CLIType (the switch compares with ===)
OtherBackends == {"cursor", "CLAUDE"}

\* createAgent(cliType, role): the agent of that backend, or a thrown Error
createAgent(cliType, role) ==
  IF cliType = CLAUDE THEN Return([cliType |-> CLAUDE, role |-> role])
  ELSE IF cliType = CODEX THEN Return([cliType |-> CODEX, role |-> role])
  ELSE IF cliType = GEMINI THEN Return([cliType |-> GEMINI, role |-> role])
  ELSE Throw

\* the constructors: the agents of the three roles, or the exception of the
\* first createAgent call that throws
Construct(cfg) ==
  LET agents == [r \in DebateRole |-> createAgent(cfg[r], r)] IN
    IF \E r \in DebateRole : agents[r].throws THEN Throw
    ELSE Return([r \in DebateRole |-> ValueOf(agents[r])])

CreateInit ==
  /\ pin \in [orchestrator : {"debate", "review"},
              moderator : CLIType \cup OtherBackends,
              challenger : CLIType \cup OtherBackends,
              defender : CLIType \cup OtherBackends]
  /\ pout = NotCalled

\* new DebateOrchestrator(config) / new CodeReviewOrchestrator(config)
New ==
  /\ pout = NotCalled
  /\ pout' = <<Construct(pin)>>
  /\ UNCHANGED pin
  /\ UNCHANGED nonParseVars

NextCreate == New

InitCreate == CreateInit /\ DebateIdle /\ ExecIdle /\ ReviewIdle /\ BusIdle /\ ListenIdle /\ PairIdle
SpecCreate == InitCreate /\ [][NextCreate]_vars

\* the backend the claim expects for a configured value: the value itself when
\* it is a known identity, else the default backend
ExpectedBackend(cliType) == IF cliType \in CLIType THEN cliType ELSE CLAUDE

\* C27, as stated: creating an executor from a backend identity is total: a
\* known identity yields the executor of that identity, an unrecognized value
\* yields the default backend's executor and no error, in both orchestrators.
C27_CreateAgentTotal ==
  pout # NotCalled =>
    /\ ~pout[1].throws
    /\ \A r \in DebateRole :
         /\ ValueOf(pout[1])[r].cliType = ExpectedBackend(pin[r])
         /\ ValueOf(pout[1])[r].role = r

\* what holds: with known identities only, each role gets the executor of the
\* configured identity
KnownBackendsCreated ==
  (pout # NotCalled /\ \A r \in DebateRole : pin[r] \in CLIType) =>
    /\ ~pout[1].throws
    /\ \A r \in DebateRole :
         /\ ValueOf(pout[1])[r].cliType = pin[r]
         /\ ValueOf(pout[1])[r].role = r

(***************************************************************************)
(* The transcript and the executor invocations of a run.                   *)
(***************************************************************************)
\* the executor invocations of the current debate run that returned success
SucceededCalls ==
  Cardinality({ c \in 1..Len(calls) : calls[c].state = Resolved /\ calls[c].res.success })

\* the role invocations of the current review run that returned success (each
\* is followed by a message:end event carrying the Message), and the fix
\* invocations that did (the FixTask is completed)
SucceededRoleCalls ==
  Cardinality({ k \in 1..Len(crEvents) :
                  crEvents[k].type = "message:end" /\ "message" \in DOMAIN crEvents[k] })
SucceededFixCalls ==
  Cardinality({ k \in 1..Len(crTasks) : crTasks[k].status = COMPLETED })

\* C28, as stated: the transcript grows by exactly one Message for each
\* executor invocation that returns success and by none for one that fails,
\* in every phase of both orchestrators.
C28_OneMessagePerSuccess ==
  /\ pc # "idle" => Len(messages) - base = SucceededCalls
  /\ crPc \notin {"off", "idle"} =>
       Len(crMessages) - crBase = SucceededRoleCalls + SucceededFixCalls

\* what holds: one Message per successful invocation of a role's executor
OneMessagePerRoleSuccess ==
  /\ pc # "idle" => Len(messages) - base = SucceededCalls
  /\ crPc \notin {"off", "idle"} => Len(crMessages) - crBase = SucceededRoleCalls

\* what holds: the transcript is append-only
IsPrefix(s, t) == Len(s) <= Len(t) /\ s = SubSeq(t, 1, Len(s))
AppendOnly ==
  [][IsPrefix(messages, messages') /\ IsPrefix(crMessages, crMessages')]_vars

(***************************************************************************)
(* The phase of a Message and the phase the orchestrator was in.           *)
(***************************************************************************)
\* the positions of the events that start a phase or a round
IsPhaseMarker(event) == event.type \in {"phase:start", "round:start"}

\* the phase and round the orchestrator is in after the first n events of evs:
\* those of the last phase:start or round:start among them
PhaseAfter(evs, n) ==
  LET markers == { k \in 1..n : IsPhaseMarker(evs[k]) }
      last == CHOOSE k \in markers : \A j \in markers : j <= k
  IN  IF evs[last].type = "round:start"
        THEN [phase |-> ROUND, roundNumber |-> evs[last].roundNumber]
        ELSE [phase |-> evs[last].phase, roundNumber |-> NoRound]

\* the Message with this id
MessageOf(msgs, id) == msgs[CHOOSE k \in 1..Len(msgs) : msgs[k].id = id]

\* every Message the run created was announced by a message:end event, and its
\* phase and round number are those the orchestrator was in at that event
PhasesMatch(msgs, first, evs) ==
  /\ \A k \in 1..Len(evs) :
       (evs[k].type = "message:end" /\ "message" \in DOMAIN evs[k]) =>
         LET m == MessageOf(msgs, evs[k].message) IN
           [phase |-> m.phase, roundNumber |-> m.roundNumber] = PhaseAfter(evs, k)
  /\ \A i \in first..Len(msgs) :
       \E k \in 1..Len(evs) :
         /\ evs[k].type = "message:end"
         /\ "message" \in DOMAIN evs[k]
         /\ evs[k].message = msgs[i].id

\* C29: every Message carries the phase the orchestrator was in when it was
\* created: opening and final Messages have phase opening / final and no round
\* number, a Message created in round n has phase round and roundNumber n, and
\* code-review Messages carry code_analysis, issue_defense and
\* verdict_assignment.
C29_MessagePhase ==
  /\ PhasesMatch(messages, base + 1, events)
  /\ \A i \in (base + 1)..Len(messages) :
       /\ messages[i].phase \in {OPENING, ROUND, FINAL}
       /\ messages[i].phase = ROUND <=> messages[i].roundNumber # NoRound
  /\ PhasesMatch(crMessages, crBase + 1, crEvents)
  /\ \A i \in (crBase + 1)..Len(crMessages) :
       /\ crMessages[i].phase =
            <<CODE_ANALYSIS, ISSUE_DEFENSE, VERDICT_ASSIGNMENT>>[i - crBase]
       /\ crMessages[i].roundNumber = NoRound

\* C29 witness: a debate of two rounds has returned Completed; its transcript
\* holds Messages of round 2 and a final Message
C29_Witness ==
  /\ pc = "returned"
  /\ result.status = COMPLETED
  /\ config.rounds = 2
  /\ \E i \in (base + 1)..Len(messages) :
       messages[i].phase = ROUND /\ messages[i].roundNumber = 2
  /\ messages[Len(messages)].phase = FINAL

(***************************************************************************)
(* What the concurrent FixTasks write and share.                           *)
(***************************************************************************)
\* the issue of FixTask k is an object of its own: no element of the
\* confirmed-issue array result.issues is the object the task refers to
PrivateIssue(k) == crTasks[k].issueAt \notin 1..Len(crResult.issues)

\* C30, as stated: while FixTasks run, each holds a private copy of its Issue
\* rather than the object held in the Issue collection (and so cannot touch
\* the collection through it).
C30_FixTaskOwnsItsIssue ==
  crPc = "fix" => \A k \in 1..Len(crTasks) : PrivateIssue(k)

\* what holds: while FixTasks run, a step changes neither the transcript nor
\* the confirmed issues, changes at most one FixTask, and of that task only
\* status, result and duration
FixTasksWriteOnlyThemselves ==
  [][crPc = "fix" =>
       /\ crMessages' = crMessages
       /\ crResult'.issues = crResult.issues
       /\ Len(crTasks') = Len(crTasks)
       /\ Cardinality({ k \in 1..Len(crTasks) : crTasks'[k] # crTasks[k] }) <= 1
       /\ \A k \in 1..Len(crTasks) :
            /\ crTasks'[k].id = crTasks[k].id
            /\ crTasks'[k].issue = crTasks[k].issue
            /\ crTasks'[k].issueAt = crTasks[k].issueAt
            /\ crTasks'[k].assignedCLI = crTasks[k].assignedCLI]_vars


(***************************************************************************)
(* ParallelFix: the invocations of the fix executors.                      *)
(***************************************************************************)
\* the fix executor invocations of this run, in the order they were started
FixCalls == SelectSeq(crCalls, LAMBDA c : c.role = FIXER)

\* the ParallelFix phase of this run has been entered
FixPhaseStarted ==
  \E k \in 1..Len(crEvents) :
    crEvents[k].type = "phase:start" /\ crEvents[k].phase = PARALLEL_FIX

\* C31, as stated: once ParallelFix has been entered with k confirmed issues,
\* k fix executor invocations have been started, all of them before the
\* orchestrator waited for any of them.
C31_AllFixesInFlight ==
  FixPhaseStarted =>
    /\ Len(FixCalls) = Len(crResult.issues)
    /\ Len(crTasks) = Len(crResult.issues)

\* what holds: every FixTask that is created has its invocation started in the
\* step that enters the phase, whatever the backend, and none is started later
FixesStartedTogether ==
  /\ FixPhaseStarted => Len(FixCalls) = Len(crTasks)
  /\ crPc = "fix" =>
       \A k \in 1..Len(crTasks) :
         /\ FixCalls[k].cliType = crTasks[k].assignedCLI
         /\ FixCalls[k].prompt = getFixTaskPrompt(crTasks[k].issue)

\* the invocations of a fix phase are all started by the step that enters it
FixesStartedBeforeWaiting ==
  [][(crPc = "fix" /\ crPc' \in {"fix", "returned"}) => crCalls' = crCalls]_vars


(***************************************************************************)
(* The outcome of a FixTask and the Issue it was created for.              *)
(***************************************************************************)
\* the Issue object fix task k was created for, as the Issue collection holds it
IssueOfTask(k) == crResult.issues[crTasks[k].issueAt]

\* C32, as stated: when a FixTask has finished, the Issue it was created for
\* records the outcome: fixed tells whether the task completed successfully
\* and fixResult holds a result.
C32_IssueRecordsOutcome ==
  \A k \in 1..Len(crTasks) :
    crTasks[k].status \in {COMPLETED, FAILED} =>
      /\ IssueOfTask(k).fixed = (IF crTasks[k].status = COMPLETED THEN "true" ELSE "false")
      /\ IssueOfTask(k).fixResult # Undefined

\* what holds: the outcome is recorded in the FixTask only; fixed and fixResult
\* of every Issue stay undefined for the whole run
OutcomeOnlyInTask ==
  /\ \A i \in 1..Len(crResult.issues) :
       /\ crResult.issues[i].fixed = "undefined"
       /\ crResult.issues[i].fixResult = Undefined
  /\ \A k \in 1..Len(crTasks) :
       /\ crTasks[k].issue.fixed = "undefined"
       /\ crTasks[k].status \in {COMPLETED, FAILED} => crTasks[k].hasDuration


(***************************************************************************)
(* The output of a successful execute() and the chunks given to onChunk.   *)
(***************************************************************************)
\* C33, as stated: the output of a successful execute() is the concatenation,
\* in arrival order, of exactly the chunks that were passed to onChunk.
C33_OutputIsDeliveredChunks ==
  (settled # <<>> /\ settled[1].success) => settled[1].output = delivered

\* what holds: the output of a successful execute() is the trimmed
\* concatenation of the chunks passed to onChunk, and holds no stderr text
OutputIsTrimmedChunks ==
  (settled # <<>> /\ settled[1].success) =>
    /\ settled[1].output = Trim(delivered)
    /\ \A k \in 1..Len(settled[1].output) : settled[1].output[k] \notin StderrTexts


(***************************************************************************)
(* Streaming: the chunks of a step and the message:chunk events.           *)
(***************************************************************************)
\* the message:chunk events of an event stream, in the order they were published
ChunkEvents(evs) == SelectSeq(evs, LAMBDA e : e.type = "message:chunk")

\* event k, a chunk of a role executor, lies inside the step of that role:
\* the step's message:start precedes it, and neither a message:end nor the
\* message:start of another step lies in between
InsideRoleStep(evs, k) ==
  \E j \in 1..(k - 1) :
    /\ evs[j].type = "message:start"
    /\ "taskId" \notin DOMAIN evs[j]
    /\ evs[j].role = evs[k].role
    /\ \A m \in (j + 1)..(k - 1) : evs[m].type \notin {"message:start", "message:end"}

\* event k, a chunk of a fix executor, lies between the message:start and the
\* message:end of its FixTask
InsideFixStep(evs, k) ==
  /\ \E j \in 1..(k - 1) :
       /\ evs[j].type = "message:start"
       /\ "taskId" \in DOMAIN evs[j]
       /\ evs[j].taskId = evs[k].taskId
  /\ \A m \in 1..(k - 1) :
       ~ /\ evs[m].type = "message:end"
         /\ "taskId" \in DOMAIN evs[m]
         /\ evs[m].taskId = evs[k].taskId

\* event k, a chunk of the build check, lies inside the BuildCheck phase
InsideBuildCheck(evs, k) ==
  /\ \E j \in 1..(k - 1) : evs[j] = [type |-> "phase:start", phase |-> BUILD_CHECK]
  /\ \A m \in 1..(k - 1) :
       ~(evs[m].type = "phase:end" /\ evs[m].phase = BUILD_CHECK)

\* n chunks have been delivered during the steps of the run that published evs
Republished(evs, streaming, n) ==
  /\ ~streaming => ChunkEvents(evs) = <<>>
  /\ streaming =>
       /\ Len(ChunkEvents(evs)) = n
       /\ \A i \in 1..n : ChunkEvents(evs)[i].chunk = i
  /\ \A k \in 1..Len(evs) :
       evs[k].type = "message:chunk" =>
         IF "taskId" \in DOMAIN evs[k] THEN InsideFixStep(evs, k)
         ELSE IF "role" \in DOMAIN evs[k] THEN InsideRoleStep(evs, k)
         ELSE InsideBuildCheck(evs, k)

C34_SilentWitness ==
  /\ pc = "returned"
  /\ ~config.streaming
  /\ chunks > 0


(***************************************************************************)
(* onChunk after the resolution of execute().                              *)
(***************************************************************************)
\* C35, as stated: no onChunk callback of an execute() call runs after the
\* call has resolved: the chunks delivered are those delivered when the
\* first terminating event occurred.
C35_NoChunkAfterResolution ==
  settled # <<>> => delivered = terminators[1].stdout

\* what holds: no chunk is delivered once the process has closed, and a
\* chunk delivered after the resolution changes neither the result nor the
\* resolved flag
NoChunkAfterClose ==
  /\ \A k \in 1..Len(terminators) :
       terminators[k].kind = "close" => delivered = terminators[k].stdout
  /\ settled # <<>> => resolved /\ Len(settled) = 1


(***************************************************************************)
(* debate:start and debate:end of a run.                                   *)
(***************************************************************************)
\* the positions of the events of one type in an event stream
PositionsOf(evs, type) == { k \in 1..Len(evs) : evs[k].type = type }

\* the event stream of a run that has returned or not: debate:start at most
\* once and first, debate:end only after debate:start, and exactly once and
\* last when the run has returned
StartEndBracket(evs, returned) ==
  /\ PositionsOf(evs, "debate:start") \subseteq {1}
  /\ PositionsOf(evs, "debate:end") # {} => PositionsOf(evs, "debate:start") # {}
  /\ PositionsOf(evs, "debate:end") = IF returned THEN {Len(evs)} ELSE {}

\* C36, as stated: in every run of either orchestrator debate:start is
\* published at most once and before every other event, debate:end exactly
\* once as the last event, and never without a debate:start.
C36_StartEndBracket ==
  /\ pc # "idle" => StartEndBracket(events, pc = "returned")
  /\ crPc \notin {"off", "idle"} => StartEndBracket(crEvents, crPc = "returned")

\* what holds: debate:end is published exactly once, when run() returns; a
\* code-review run publishes debate:start first; a debate run publishes it
\* first unless the availability check failed, and then not at all
EndOnceStartUnlessUnavailable ==
  /\ pc # "idle" =>
       /\ PositionsOf(events, "debate:end") = IF pc = "returned" THEN {Len(events)} ELSE {}
       /\ PositionsOf(events, "debate:start") \subseteq {1}
       /\ (pc = "returned" /\ PositionsOf(events, "debate:start") = {}) =>
            /\ \E r \in DebateRole : probes[r] = "no"
            /\ calls = <<>>
  /\ crPc \notin {"off", "idle"} =>
       /\ PositionsOf(crEvents, "debate:start") = {1}
       /\ Cardinality(PositionsOf(crEvents, "debate:end")) = IF crPc = "returned" THEN 1 ELSE 0


(***************************************************************************)
(* The error event and the status of the run.                              *)
(***************************************************************************)
\* every error event at one of the positions is immediately followed by debate:end
EndsTheRun(evs, positions) ==
  \A k \in positions : k < Len(evs) /\ evs[k + 1].type = "debate:end"

\* the run that published evs has status `status`: an error event was published
\* if and only if the run returned Failed, and debate:end follows it at once
ErrorIffFailed(evs, returned, status) ==
  /\ PositionsOf(evs, "error") # {} <=> (returned /\ status = FAILED)
  /\ EndsTheRun(evs, PositionsOf(evs, "error"))

\* C37, as stated: an error event is published during a run if and only if the
\* run's returned status is Failed, and it is immediately followed by
\* debate:end, in debate runs and in code-review runs.
C37_ErrorIffFailed ==
  /\ pc # "idle" => ErrorIffFailed(events, pc = "returned", result.status)
  /\ crPc \notin {"off", "idle"} =>
       ErrorIffFailed(crEvents, crPc = "returned", crResult.status)

\* what holds: debate runs are as stated; in a code-review run the error
\* events other than the one of a failed build are as stated, and a run that
\* returns Failed has published one of them
ErrorIffFailedButBuild ==
  /\ pc # "idle" => ErrorIffFailed(events, pc = "returned", result.status)
  /\ crPc \notin {"off", "idle"} =>
       LET others == { k \in PositionsOf(crEvents, "error") :
                         crEvents[k].error # <<"build failed">> }
       IN  /\ others # {} <=> (crPc = "returned" /\ crResult.status = FAILED)
           /\ EndsTheRun(crEvents, others)


(***************************************************************************)
(* run() of an orchestrator that has listeners.  The executors are         *)
(* abstracted to the outcome of each step; what is modelled is where each  *)
(* emit() call stands with respect to the try blocks of run() and of       *)
(* executeFixTask.  No build command is configured and one FixTask is      *)
(* created.                                                                *)
(***************************************************************************)
\* listeners that throw for the events of one type only
SelectiveKinds == {"error", "debate:end", "message:start", "message:end"}

\* the callback throws when it is called with an event of this type
ThrowsOn(callback, type) == callback = "throws" \/ callback = type

\* forEach over the callbacks for an event of this type: the number of
\* callbacks called, the last of them being the first that throws
CalledFor(callbacks, type) ==
  LET throwers == { k \in 1..Len(callbacks) : ThrowsOn(callbacks[k], type) } IN
    IF throwers = {} THEN Len(callbacks)
    ELSE CHOOSE k \in throwers : \A j \in throwers : k <= j

\* the bus before a handler runs
Bus == [published |-> published, deliveries |-> deliveries, threw |-> FALSE]

\* emit(type, data) on bus b
EmitOf(b, type) ==
  LET called == CalledFor(eventCallbacks, type)
      threw == called > 0 /\ ThrowsOn(eventCallbacks[called], type)
  IN  [published |-> Append(b.published, [listeners |-> Len(eventCallbacks),
                                          threw |-> threw, type |-> type]),
       deliveries |-> b.deliveries \o
          [k \in 1..called |-> [listener |-> k, event |-> Len(b.published) + 1]],
       threw |-> threw]

\* consecutive emit() calls of one block: the first that throws leaves the block
RECURSIVE EmitAll(_, _)
EmitAll(b, types) ==
  IF types = <<>> \/ b.threw THEN b
  ELSE EmitAll(EmitOf(b, Head(types)), Tail(types))

\* run() ends with this bus, promise state and status
Settle(b, state, status) ==
  /\ published' = b.published
  /\ deliveries' = b.deliveries
  /\ lpc' = state
  /\ lstatus' = status

\* the catch block of run(): status Failed, emit error, emit debate:end, return
RunCatch(b) ==
  LET e == EmitAll([b EXCEPT !.threw = FALSE], <<"error", "debate:end">>) IN
    Settle(e, IF e.threw THEN "rejected" ELSE "resolved", FAILED)

\* emits made inside the try block of run(), then the next await or the return
TryEmits(b, types, state, status) ==
  LET e == EmitAll(b, types) IN
    IF e.threw THEN RunCatch(e) ELSE Settle(e, state, status)

ListenInit ==
  /\ BusInit
  /\ lpc = "idle"
  /\ lstatus = PENDING
  /\ PairIdle

\* on(callback), before run() is called
Listen(callback) ==
  /\ lpc = "idle"
  /\ On(callback)

\* run() is called: up to the await of the challenger's call
ListenRun ==
  /\ lpc = "idle"
  /\ TryEmits(Bus, <<"debate:start", "phase:start", "message:start">>,
              "analysis", IN_PROGRESS)
  /\ UNCHANGED eventCallbacks
  /\ UNCHANGED nonListenVars

\* the challenger's call resolves
ListenAnalysisResolved(ok, issues) ==
  /\ lpc = "analysis"
  /\ IF ~ok THEN RunCatch(Bus)
     ELSE IF issues
       THEN TryEmits(Bus, <<"message:end", "phase:end", "phase:start", "message:start">>,
                     "defense", IN_PROGRESS)
       ELSE TryEmits(Bus, <<"message:end", "phase:end", "debate:end">>,
                     "resolved", COMPLETED)
  /\ UNCHANGED eventCallbacks
  /\ UNCHANGED nonListenVars

\* the defender's call resolves
ListenDefenseResolved(ok) ==
  /\ lpc = "defense"
  /\ IF ~ok THEN RunCatch(Bus)
     ELSE TryEmits(Bus, <<"message:end", "phase:end", "phase:start", "message:start">>,
                   "verdict", IN_PROGRESS)
  /\ UNCHANGED eventCallbacks
  /\ UNCHANGED nonListenVars

\* the moderator's call resolves; with a fix wanted executeParallelFix emits
\* phase:start and executeFixTask emits message:start outside its try block
\* (its rejection reaches run() through Promise.all)
ListenVerdictResolved(ok, fix) ==
  /\ lpc = "verdict"
  /\ IF ~ok THEN RunCatch(Bus)
     ELSE IF fix
       THEN TryEmits(Bus, <<"message:end", "phase:end", "phase:start", "message:start">>,
                     "fix", IN_PROGRESS)
       ELSE TryEmits(Bus, <<"message:end", "phase:end", "debate:end">>,
                     "resolved", COMPLETED)
  /\ UNCHANGED eventCallbacks
  /\ UNCHANGED nonListenVars

\* the fix executor's call resolves: message:end is emitted inside the try
\* block of executeFixTask, whose catch block swallows what it throws; then
\* executeParallelFix and run() go on
ListenFixResolved ==
  /\ lpc = "fix"
  /\ LET e == EmitOf(Bus, "message:end") IN
       TryEmits([e EXCEPT !.threw = FALSE], <<"phase:end", "debate:end">>,
                "resolved", COMPLETED)
  /\ UNCHANGED eventCallbacks
  /\ UNCHANGED nonListenVars

NextListen ==
  \/ \E callback \in ListenerKinds \cup SelectiveKinds : Listen(callback)
  \/ ListenRun
  \/ \E ok, issues \in BOOLEAN : ListenAnalysisResolved(ok, issues)
  \/ \E ok \in BOOLEAN : ListenDefenseResolved(ok)
  \/ \E ok, fix \in BOOLEAN : ListenVerdictResolved(ok, fix)
  \/ ListenFixResolved

InitListen == ListenInit /\ DebateIdle /\ ExecIdle /\ ParseIdle /\ ReviewIdle
SpecListen == InitListen /\ [][NextListen]_vars

\* C38, as stated: a listener that throws cannot make run() reject.
C38_RunNeverRejects == lpc # "rejected"

\* a listener that throws for the events of this type is registered
Thrower(type) ==
  \E k \in 1..Len(eventCallbacks) : ThrowsOn(eventCallbacks[k], type)

\* what holds: run() rejects only by an exception thrown for the error or the
\* debate:end event; a listener that throws inside a FixTask or for any other
\* event fails the run at most, and a resolved run is Completed or Failed
RejectsOnlyFromCatch ==
  /\ lpc = "rejected" =>
       /\ Thrower("error") \/ Thrower("debate:end")
       /\ published[Len(published)].threw
       /\ published[Len(published)].type \in {"error", "debate:end"}
       /\ lstatus = FAILED
  /\ lpc = "resolved" => lstatus \in {COMPLETED, FAILED}
  /\ (lpc = "resolved" /\ lstatus = COMPLETED) =>
       \A n \in 1..Len(published) :
         published[n].threw => published[n].type = "message:end"


(***************************************************************************)
(* Concurrent execute() calls on one executor instance.  Each call runs    *)
(* the promise executor of execute() once: output, errorOutput, resolved   *)
(* and the timer are locals of that closure, the process is the one it     *)
(* spawned.  Durations are left out (0).                                   *)
(***************************************************************************)
\* execute() calls made on the instance
MaxCalls == 2
\* chunks the processes of the calls write in all, to stdout and to stderr
MaxPairChunks == 2

\* exit codes of 'close' in this model
PairExitCodes == {0, 1}

\* the closure of a new call, after execute() returned its promise; wrote,
\* wroteErr and first record what the call's own process did: what it wrote
\* and the result its first terminating event stands for
NewCall(overlaps) ==
  [output |-> <<>>, errorOutput |-> <<>>, resolved |-> FALSE, timer |-> "armed",
   proc |-> "running", settled |-> <<>>, signals |-> 0,
   wrote |-> <<>>, wroteErr |-> <<>>, first |-> <<>>, overlaps |-> overlaps]

\* a faulty variant: one output buffer for the instance
Accumulate_Shared(cs, c, chunk) ==
  [d \in DOMAIN cs |-> [cs[d] EXCEPT !.output = Append(@, chunk)]]

\* `output += chunk` in the stdout handler of call c
Accumulate(cs, c, chunk) == [cs EXCEPT ![c].output = Append(@, chunk)]

\* resolve(r) in a handler of call c whose guard `if (!resolved)` holds
ResolveCall(cs, c, r) ==
  [cs EXCEPT ![c].resolved = TRUE, ![c].settled = Append(@, r)]

\* the first terminating event of call c stands for result r
FirstOf(cs, c, r) ==
  [cs EXCEPT ![c].first = IF @ = <<>> THEN <<r>> ELSE @]

\* the number of chunks the processes of the calls have written
RECURSIVE Written(_)
Written(cs) ==
  IF cs = <<>> THEN 0
  ELSE Len(Head(cs).wrote) + Len(Head(cs).wroteErr) + Written(Tail(cs))

PairInit ==
  /\ xcalls = <<>>
  /\ BusIdle
  /\ ListenIdle

\* execute() is called on the instance while earlier calls may be in flight
ExecuteCall ==
  /\ Len(xcalls) < MaxCalls
  /\ xcalls' = Append(xcalls,
                      NewCall(\E d \in 1..Len(xcalls) : ~xcalls[d].resolved))
  /\ UNCHANGED nonPairVars

\* stdout 'data' of the process of call c
PairStdout(c, chunk) ==
  /\ c \in 1..Len(xcalls)
  /\ xcalls[c].proc = "running"
  /\ Written(xcalls) < MaxPairChunks
  /\ xcalls' = [Accumulate(xcalls, c, chunk) EXCEPT ![c].wrote = Append(@, chunk)]
  /\ UNCHANGED nonPairVars

\* stderr 'data' of the process of call c
PairStderr(c, chunk) ==
  /\ c \in 1..Len(xcalls)
  /\ xcalls[c].proc = "running"
  /\ Written(xcalls) < MaxPairChunks
  /\ xcalls' = [xcalls EXCEPT ![c].errorOutput = Append(@, chunk),
                              ![c].wroteErr = Append(@, chunk)]
  /\ UNCHANGED nonPairVars

\* the timer of call c fires
PairTimer(c) ==
  /\ c \in 1..Len(xcalls)
  /\ xcalls[c].timer = "armed"
  /\ LET fired == FirstOf([xcalls EXCEPT ![c].timer = "fired"], c,
                          TimeoutResult(xcalls[c].wrote, 0))
     IN  xcalls' = IF xcalls[c].resolved THEN fired
                   ELSE [ResolveCall(fired, c, TimeoutResult(xcalls[c].output, 0))
                           EXCEPT ![c].signals = @ + 1]
  /\ UNCHANGED nonPairVars

\* 'close' of the process of call c
PairClose(c, code) ==
  /\ c \in 1..Len(xcalls)
  /\ xcalls[c].proc = "running"
  /\ LET closed == FirstOf([xcalls EXCEPT ![c].proc = "closed"], c,
                           CloseResult(code, xcalls[c].wrote, xcalls[c].wroteErr, 0))
     IN  xcalls' = IF xcalls[c].resolved THEN closed
                   ELSE [ResolveCall(closed, c,
                                     CloseResult(code, xcalls[c].output,
                                                 xcalls[c].errorOutput, 0))
                           EXCEPT ![c].timer = "cleared"]
  /\ UNCHANGED nonPairVars

\* 'error' of the process of call c, which then writes and closes no more
PairError(c, message) ==
  /\ c \in 1..Len(xcalls)
  /\ xcalls[c].proc = "running"
  /\ LET errored == FirstOf([xcalls EXCEPT ![c].proc = "errored"], c,
                            ErrorResult(message, 0))
     IN  xcalls' = IF xcalls[c].resolved THEN errored
                   ELSE [ResolveCall(errored, c, ErrorResult(message, 0))
                           EXCEPT ![c].timer = "cleared"]
  /\ UNCHANGED nonPairVars

NextPair ==
  \/ ExecuteCall
  \/ \E c \in 1..MaxCalls : PairStdout(c, "a")
  \/ \E c \in 1..MaxCalls : \E chunk \in StderrTexts : PairStderr(c, chunk)
  \/ \E c \in 1..MaxCalls : PairTimer(c)
  \/ \E c \in 1..MaxCalls : \E code \in PairExitCodes : PairClose(c, code)
  \/ \E c \in 1..MaxCalls : \E message \in ErrorMessages : PairError(c, message)

InitPair == PairInit /\ DebateIdle /\ ExecIdle /\ ParseIdle /\ ReviewIdle
SpecPair == InitPair /\ [][NextPair]_vars

\* C39: concurrent execute() calls on one instance are independent: each call
\* resolves at most once, with the result its own first terminating event
\* stands for given what its own process wrote, and its process is signalled
\* only by its own timer, whatever the other calls do.
C39_CallsIndependent ==
  \A c \in 1..Len(xcalls) :
    /\ xcalls[c].settled = xcalls[c].first
    /\ xcalls[c].output = xcalls[c].wrote
    /\ xcalls[c].errorOutput = xcalls[c].wroteErr
    /\ xcalls[c].signals = IF xcalls[c].timer = "fired" /\ xcalls[c].settled # <<>>
                                /\ xcalls[c].settled[1].error = TIMEOUT_ERROR
                             THEN 1 ELSE 0

\* C39 witness: two calls that overlapped have resolved differently, the first
\* successfully with its own chunk, the second by its timeout with no output
\* and its own stderr text kept out of the first call's result
C39_Witness ==
  /\ Len(xcalls) = 2
  /\ xcalls[2].overlaps
  /\ xcalls[1].settled = << CloseResult(0, <<"a">>, <<>>, 0) >>
  /\ xcalls[2].settled = << TimeoutResult(<<>>, 0) >>
  /\ xcalls[2].wroteErr # <<>>
  /\ xcalls[1].timer = "cleared"

\* a step of one call leaves the closure of every other call alone
OneCallPerStep ==
  [][\A c, d \in 1..Len(xcalls) :
       (c # d /\ xcalls'[c] # xcalls[c]) => xcalls'[d] = xcalls[d]]_vars


(***************************************************************************)
(* phase:start and phase:end of a Completed run.                           *)
(***************************************************************************)
\* the phase:start at position k is followed by the phase:end of its phase
\* before any other phase:start
PhaseClosed(evs, k) ==
  \E m \in (k + 1)..Len(evs) :
    /\ evs[m].type = "phase:end"
    /\ evs[m].phase = evs[k].phase
    /\ \A j \in (k + 1)..(m - 1) : evs[j].type # "phase:start"

\* every phase:start of the stream, but those of the phases left out
PhasesBracketed(evs, but) ==
  \A k \in PositionsOf(evs, "phase:start") :
    evs[k].phase \notin but => PhaseClosed(evs, k)

\* C40, as stated: in a run that ends Completed every phase:start is followed
\* by the phase:end of the same phase before any other phase:start, the build
\* check whose command fails to launch included.
C40_PhasesBracketed ==
  /\ (pc = "returned" /\ result.status = COMPLETED) => PhasesBracketed(events, {})
  /\ (crPc = "returned" /\ crResult.status = COMPLETED) => PhasesBracketed(crEvents, {})

\* what holds: the phases of a Completed debate run, and those of a Completed
\* code-review run other than the build check, are bracketed
PhasesBracketedButBuild ==
  /\ (pc = "returned" /\ result.status = COMPLETED) => PhasesBracketed(events, {})
  /\ (crPc = "returned" /\ crResult.status = COMPLETED) =>
       /\ PhasesBracketed(crEvents, {BUILD_CHECK})
       /\ ~crConfig.buildCommand => PhasesBracketed(crEvents, {})


====
